---- MODULE Spec2Model ----
(***************************************************************************)
(* Bonfire: a UDP rendezvous server, its MingleSet (zset) and its peers.   *)
(*                                                                         *)
(* Time is an integer clock (one unit = one minute).  A datagram is kept   *)
(* as the record of its fields together with its length in bytes, so that  *)
(* the size checks of the readers and the codec's field layout decide what *)
(* is parsed.                                                              *)
(***************************************************************************)
EXTENDS Integers, Sequences, FiniteSets, Bags, TLC

(***************************************************************************)
(* Bounds of the model.                                                    *)
(***************************************************************************)
MaxTime == 2
MaxConcurrent == 2
PeersToMeet == 2
MaxPeers == 2
BigBuf == 200
MaxGet == 3
MaxSendErrors == 1

(***************************************************************************)
(* Program constants.                                                      *)
(***************************************************************************)
MaxMessageSize == 85
MinMessageSize == 66
FingerprintSize == 64
ReadyToMingleTimeout == 2
PacketBlastCount == 3

Nil == "nil"

(* addresses: two IPv4 peers, one IPv6 peer, the server *)
ServerAddr == "srv"
Addrs == {"a4", "b4", "c6"}
FPs == {"f1", "f2"}

IPLen(addr) == IF addr = "c6" THEN 16 ELSE 4

(***************************************************************************)
(* Codec.                                                                  *)
(***************************************************************************)
HelloServer == 0
HelloPeer == 1
Meet == 2
ReadyToMingle == 3
invalid == 4

Message(typ, fp, addr, mfp) ==
    [Type |-> typ, Fingerprint |-> fp, Addr |-> addr, MeetFingerprint |-> mfp]

NoMessage == Message(invalid, Nil, Nil, Nil)

(* a Meet carries the introduced peer's fingerprint between the type byte  *)
(* and the address                                                         *)
MeetBodyFingerprintLen(typ) == IF typ = Meet THEN FingerprintSize ELSE 0

(* bytes of the address body: proto(1) port(2) ip(4|16) *)
AddrBodyLen(addr) == 1 + 2 + IPLen(addr)

(* A frame: n is its length in bytes; ver is byte 0, fp bytes 1..64, typ   *)
(* byte 65; a Meet then carries the introduced peer's fingerprint (mfp),   *)
(* and HelloPeer/Meet end with proto, port and ip (addr, ipn ip bytes).    *)
Frame(n, ver, fp, typ, mfp, proto, addr, ipn) ==
    [n |-> n, ver |-> ver, fp |-> fp, typ |-> typ, mfp |-> mfp,
     proto |-> proto, addr |-> addr, ipn |-> ipn]

MarshalBinary(m) ==
    LET head == 1 + FingerprintSize + 1
    IN  CASE m.Type = HelloPeer ->
               Frame(head + AddrBodyLen(m.Addr), 0, m.Fingerprint, m.Type,
                     Nil, 0, m.Addr, IPLen(m.Addr))
          [] m.Type = Meet ->
               Frame(head + MeetBodyFingerprintLen(m.Type) + AddrBodyLen(m.Addr), 0,
                     m.Fingerprint, m.Type, m.MeetFingerprint, 0, m.Addr,
                     IPLen(m.Addr))
          [] OTHER ->
               Frame(head, 0, m.Fingerprint, m.Type, Nil, Nil, Nil, 0)

(* what a read into a buffer of k bytes leaves of a datagram *)
Truncate(b, k) == IF b.n <= k THEN b ELSE [b EXCEPT !.n = k]

(* the bytes left for the ip once the fields before it are read *)
IPBytes(b) ==
    b.n - (1 + FingerprintSize + 1) - MeetBodyFingerprintLen(b.typ) - 3

(* UnmarshalBinary without the test of the proto tag *)
UnmarshalBinary_AnyProto(b) ==
    LET head == 1 + FingerprintSize + 1
        bad == [err |-> TRUE, msg |-> NoMessage]
        ok(m) == [err |-> FALSE, msg |-> m]
    IN  IF b.n > MaxMessageSize THEN bad
        ELSE IF b.n < head THEN bad
        ELSE IF b.ver # 0 THEN bad
        ELSE IF b.typ >= invalid THEN bad
        ELSE IF b.typ \in {HelloPeer, Meet}
        THEN IF b.n < head + MeetBodyFingerprintLen(b.typ) THEN bad
             ELSE IF IPBytes(b) < 0 THEN bad
             ELSE IF IPBytes(b) # 4 /\ IPBytes(b) # 16 THEN bad
             ELSE ok(Message(b.typ, b.fp,
                             IF IPBytes(b) = b.ipn THEN b.addr ELSE "garbage",
                             IF b.typ = Meet THEN b.mfp ELSE Nil))
        ELSE ok(Message(b.typ, b.fp, Nil, Nil))

UnmarshalBinary(b) ==
    LET head == 1 + FingerprintSize + 1
        bad == [err |-> TRUE, msg |-> NoMessage]
        ok(m) == [err |-> FALSE, msg |-> m]
    IN  IF b.n > MaxMessageSize THEN bad
        ELSE IF b.n < head THEN bad
        ELSE IF b.ver # 0 THEN bad
        ELSE IF b.typ >= invalid THEN bad
        ELSE IF b.typ \in {HelloPeer, Meet}
        THEN IF b.n < head + MeetBodyFingerprintLen(b.typ) THEN bad
             ELSE IF IPBytes(b) < -2 THEN bad
             ELSE IF b.proto # 0 THEN bad
             ELSE IF IPBytes(b) < 0 THEN bad
             ELSE IF IPBytes(b) # 4 /\ IPBytes(b) # 16 THEN bad
             ELSE ok(Message(b.typ, b.fp,
                             IF IPBytes(b) = b.ipn THEN b.addr ELSE "garbage",
                             IF b.typ = Meet THEN b.mfp ELSE Nil))
        ELSE ok(Message(b.typ, b.fp, Nil, Nil))

(***************************************************************************)
(* zset: the MingleSet.  A list is the sequence of its elements, front     *)
(* first; an element is [id, t, addr, fingerprint] where id stands for the *)
(* *list.Element pointer.  m maps an address to the pair of element ids    *)
(* {timeL element, usageL element}, NoEls when the key is absent.          *)
(***************************************************************************)
NoEls == <<0, 0>>

newZSet == [timeL |-> <<>>, usageL |-> <<>>, m |-> [a \in Addrs |-> NoEls]]

Ids(L) == {L[i].id : i \in 1..Len(L)}

(* a pointer no live element and no map entry holds *)
FreshId(L, held) ==
    CHOOSE i \in 1..(2 * Cardinality(Addrs) + 2) :
        /\ i \notin Ids(L) \cup held
        /\ \A j \in 1..(i - 1) : j \in Ids(L) \cup held

ListRemove(L, id) == SelectSeq(L, LAMBDA e : e.id # id)

PushBack(L, id, el) ==
    Append(L, [id |-> id, t |-> el.t, addr |-> el.addr,
               fingerprint |-> el.fingerprint])

SetValue(L, id, el) ==
    [i \in 1..Len(L) |->
        IF L[i].id = id
        THEN [id |-> id, t |-> el.t, addr |-> el.addr,
              fingerprint |-> el.fingerprint]
        ELSE L[i]]

MoveToFront(L, id) ==
    IF id \in Ids(L)
    THEN SelectSeq(L, LAMBDA e : e.id = id) \o SelectSeq(L, LAMBDA e : e.id # id)
    ELSE L

zsetEl(t, addr, fingerprint) == [t |-> t, addr |-> addr, fingerprint |-> fingerprint]

(* Pointers are opaque: every operation ends by renaming them so that an   *)
(* element's id is its place in its list (a map entry whose element is in  *)
(* no list becomes -1, a dangling pointer).                                *)
Place(L, id) ==
    IF id = 0 THEN 0
    ELSE IF id \in Ids(L) THEN CHOOSE i \in 1..Len(L) : L[i].id = id
    ELSE -1

Renumber(L) == [i \in 1..Len(L) |-> [L[i] EXCEPT !.id = i]]

Canon(z) ==
    [timeL |-> Renumber(z.timeL),
     usageL |-> Renumber(z.usageL),
     m |-> [a \in Addrs |-> <<Place(z.timeL, z.m[a][1]), Place(z.usageL, z.m[a][2])>>]]

After_AtOrAfter(t, u) == t >= u

After(t, u) == t > u

add_KeepOldTimeElement(z, addr, fingerprint, tnow) ==
    LET el == zsetEl(tnow, addr, fingerprint)
        tid == FreshId(z.timeL, {z.m[a][1] : a \in Addrs})
        uid == IF z.m[addr][2] = 0
               THEN FreshId(z.usageL, {z.m[a][2] : a \in Addrs \ {addr}})
               ELSE z.m[addr][2]
    IN  Canon([timeL |-> PushBack(z.timeL, tid, el),
               usageL |-> IF z.m[addr][2] = 0
                          THEN PushBack(z.usageL, uid, el)
                          ELSE SetValue(z.usageL, uid, el),
               m |-> [z.m EXCEPT ![addr] = <<tid, uid>>]])

add_MoveUsageToBack(z, addr, fingerprint, tnow) ==
    LET listEls == z.m[addr]
        ok == listEls # NoEls
        timeL1 == IF ok THEN ListRemove(z.timeL, listEls[1]) ELSE z.timeL
        usageL1 == IF ok THEN ListRemove(z.usageL, listEls[2]) ELSE z.usageL
        el == zsetEl(tnow, addr, fingerprint)
        tid == FreshId(timeL1, {z.m[a][1] : a \in Addrs \ {addr}})
        uid == FreshId(usageL1, {z.m[a][2] : a \in Addrs \ {addr}})
    IN  Canon([timeL |-> PushBack(timeL1, tid, el),
               usageL |-> PushBack(usageL1, uid, el),
               m |-> [z.m EXCEPT ![addr] = <<tid, uid>>]])

(* add that leaves the value of the usage element of a known address alone *)
add_KeepUsageValue(z, addr, fingerprint, tnow) ==
    LET listEls == z.m[addr]
        ok == listEls # NoEls
        timeL1 == IF ok THEN ListRemove(z.timeL, listEls[1]) ELSE z.timeL
        el == zsetEl(tnow, addr, fingerprint)
        tid == FreshId(timeL1, {z.m[a][1] : a \in Addrs \ {addr}})
        uid == IF listEls[2] = 0
               THEN FreshId(z.usageL, {z.m[a][2] : a \in Addrs \ {addr}})
               ELSE listEls[2]
    IN  Canon([timeL |-> PushBack(timeL1, tid, el),
               usageL |-> IF listEls[2] = 0
                          THEN PushBack(z.usageL, uid, el)
                          ELSE z.usageL,
               m |-> [z.m EXCEPT ![addr] = <<tid, uid>>]])

add(z, addr, fingerprint, tnow) ==
    LET listEls == z.m[addr]
        ok == listEls # NoEls
        timeL1 == IF ok THEN ListRemove(z.timeL, listEls[1]) ELSE z.timeL
        el == zsetEl(tnow, addr, fingerprint)
        tid == FreshId(timeL1, {z.m[a][1] : a \in Addrs \ {addr}})
        uid == IF listEls[2] = 0
               THEN FreshId(z.usageL, {z.m[a][2] : a \in Addrs \ {addr}})
               ELSE listEls[2]
    IN  Canon([timeL |-> PushBack(timeL1, tid, el),
               usageL |-> IF listEls[2] = 0
                          THEN PushBack(z.usageL, uid, el)
                          ELSE SetValue(z.usageL, uid, el),
               m |-> [z.m EXCEPT ![addr] = <<tid, uid>>]])

(* the loop of get: el walks usageL from the back; els are the collected   *)
(* elements in the order they were met                                     *)
RECURSIVE getLoop(_, _, _, _, _)
getLoop(usageL, i, n, expire, els) ==
    IF Len(els) >= n \/ i = 0
    THEN els
    ELSE getLoop(usageL, i - 1, n, expire,
                 IF After(usageL[i].t, expire)
                 THEN Append(els, usageL[i])
                 ELSE els)

RECURSIVE moveAllToFront(_, _, _)
moveAllToFront(usageL, els, k) ==
    IF k > Len(els)
    THEN usageL
    ELSE moveAllToFront(MoveToFront(usageL, els[k].id), els, k + 1)

get_NoLimit(z, n, expire) ==
    LET els == getLoop(z.usageL, Len(z.usageL), Len(z.usageL), expire, <<>>)
    IN  [z |-> Canon([z EXCEPT !.usageL = moveAllToFront(z.usageL, els, 1)]),
         zEls |-> [k \in 1..Len(els) |->
                      zsetEl(els[k].t, els[k].addr, els[k].fingerprint)]]

get_NoRotation(z, n, expire) ==
    LET els == getLoop(z.usageL, Len(z.usageL), n, expire, <<>>)
    IN  [z |-> Canon(z),
         zEls |-> [k \in 1..Len(els) |->
                      zsetEl(els[k].t, els[k].addr, els[k].fingerprint)]]

get_RotateUnchecked(z, n, expire) ==
    LET els == getLoop(z.usageL, Len(z.usageL), n, expire, <<>>)
        walked == SubSeq(z.usageL, Len(z.usageL) + 1 - (IF n < Len(z.usageL) THEN n ELSE Len(z.usageL)),
                         Len(z.usageL))
    IN  [z |-> Canon([z EXCEPT !.usageL =
                         [i \in 1..Len(walked) |-> walked[i]] \o
                         SubSeq(z.usageL, 1, Len(z.usageL) - Len(walked))]),
         zEls |-> [k \in 1..Len(els) |->
                      zsetEl(els[k].t, els[k].addr, els[k].fingerprint)]]

(* get that puts the collected elements at the front in the order it met  *)
(* them                                                                    *)
get_CollectedOrderToFront(z, n, expire) ==
    LET els == getLoop(z.usageL, Len(z.usageL), n, expire, <<>>)
        taken == {els[i].id : i \in 1..Len(els)}
    IN  [z |-> Canon([z EXCEPT !.usageL =
                         els \o SelectSeq(z.usageL, LAMBDA e : e.id \notin taken)]),
         zEls |-> [i \in 1..Len(els) |->
                      zsetEl(els[i].t, els[i].addr, els[i].fingerprint)]]

get(z, n, expire) ==
    LET els == getLoop(z.usageL, Len(z.usageL), n, expire, <<>>)
    IN  [z |-> Canon([z EXCEPT !.usageL = moveAllToFront(z.usageL, els, 1)]),
         zEls |-> [k \in 1..Len(els) |->
                      zsetEl(els[k].t, els[k].addr, els[k].fingerprint)]]

RECURSIVE expireLoop(_, _)
expireLoop(z, t) ==
    IF z.timeL = <<>> \/ After(z.timeL[1].t, t)
    THEN z
    ELSE LET el == z.timeL[1]
             usageLEl == z.m[el.addr][2]
         IN  expireLoop([timeL |-> ListRemove(z.timeL, el.id),
                         usageL |-> ListRemove(z.usageL, usageLEl),
                         m |-> [z.m EXCEPT ![el.addr] = NoEls]], t)

expire_StrictlyBefore(z, t) == Canon(expireLoop(z, t - 1))

expire(z, t) == Canon(expireLoop(z, t))

(***************************************************************************)
(* State.                                                                  *)
(***************************************************************************)
VARIABLES
    now,          \* the wall clock
    mingleZSet,   \* Server.mingleZSet
    handlers,     \* the bag of handler goroutines of Listen that are between
                  \* getMinglers' clock reading and its get
    lastHello,    \* what the HelloServer handled by the last step got and sent
    net,          \* datagrams in flight
    peer,         \* the Peer objects and their goroutines, by socket address
    srv,          \* the Server's options and the goroutines of its Listen
    obs           \* what the last step of a peer sent and returned

(***************************************************************************)
(* Shared helpers.                                                         *)
(***************************************************************************)
Packet(src, dst, b, copies) == [src |-> src, dst |-> dst, b |-> b, copies |-> copies]

(* multiSend writes n copies of the marshalled message to dst *)
multiSend(src, dst, n, msg) == Packet(src, dst, MarshalBinary(msg), n)

(***************************************************************************)
(* Server.                                                                 *)
(***************************************************************************)
Handler(src, fp, tnow) == [src |-> src, fp |-> fp, tnow |-> tnow]

NoHello == [valid |-> FALSE, src |-> Nil, fp |-> Nil, tnow |-> 0,
            zBefore |-> newZSet, zEls |-> <<>>, sent |-> {}]

(* Server.FingerprintCheck: nil in a server made by NewServer *)
FingerprintCheck(fp) == TRUE

(* the Meet for one mingler: the envelope carries the mingler's own        *)
(* fingerprint, the body the newcomer's address and fingerprint            *)
MeetMessage(mingler, src, fp) == Message(Meet, mingler.fingerprint, src, fp)

addMingler_KeepExisting(z, src, fp, tnow) ==
    IF z.m[src] # NoEls THEN z ELSE add(z, src, fp, tnow)

addMingler(z, src, fp, tnow) == add(z, src, fp, tnow)

getMinglers(z, n, tnow) == get(z, n, tnow - ReadyToMingleTimeout)

helloServerSends_MeetSelf(minglers, src, fp) ==
    {multiSend(ServerAddr, minglers[k].addr, PacketBlastCount,
               MeetMessage(minglers[k], minglers[k].addr, fp)) : k \in 1..Len(minglers)}
    \cup
    (IF Len(minglers) < PeersToMeet
     THEN {multiSend(ServerAddr, src, PacketBlastCount,
                     Message(HelloPeer, fp, src, Nil))}
     ELSE {})

helloServerSends_OnlyWhenEmpty(minglers, src, fp) ==
    {multiSend(ServerAddr, minglers[k].addr, PacketBlastCount,
               MeetMessage(minglers[k], src, fp)) : k \in 1..Len(minglers)}
    \cup
    (IF Len(minglers) = 0
     THEN {multiSend(ServerAddr, src, PacketBlastCount,
                     Message(HelloPeer, fp, src, Nil))}
     ELSE {})

(* the datagrams the HelloServer branch of handlePacket sends *)
helloServerSends_HelloBodyServer(minglers, src, fp) ==
    {multiSend(ServerAddr, minglers[k].addr, PacketBlastCount,
               MeetMessage(minglers[k], src, fp)) : k \in 1..Len(minglers)}
    \cup
    (IF Len(minglers) < PeersToMeet
     THEN {multiSend(ServerAddr, src, PacketBlastCount,
                     Message(HelloPeer, fp, ServerAddr, Nil))}
     ELSE {})

helloServerSends(minglers, src, fp) ==
    {multiSend(ServerAddr, minglers[k].addr, PacketBlastCount,
               MeetMessage(minglers[k], src, fp)) : k \in 1..Len(minglers)}
    \cup
    (IF Len(minglers) < PeersToMeet
     THEN {multiSend(ServerAddr, src, PacketBlastCount,
                     Message(HelloPeer, fp, src, Nil))}
     ELSE {})

(* Listen reads a datagram, takes a throttle token and runs handlePacket   *)
(* in its goroutine: unmarshal, fingerprint check, the ReadyToMingle       *)
(* branch, and for a HelloServer the clock reading of getMinglers          *)
handlePacket(pkt) ==
    /\ BagCardinality(handlers) < MaxConcurrent
    /\ LET u == UnmarshalBinary(Truncate(pkt.b, MaxMessageSize))
           msg == u.msg
       IN  IF u.err \/ ~FingerprintCheck(msg.Fingerprint)
           THEN UNCHANGED <<mingleZSet, handlers>>
           ELSE IF msg.Type = HelloServer
           THEN /\ handlers' = handlers (+)
                       SetToBag({Handler(pkt.src, msg.Fingerprint, now)})
                /\ UNCHANGED mingleZSet
           ELSE IF msg.Type = ReadyToMingle
           THEN /\ mingleZSet' = addMingler(mingleZSet, pkt.src,
                                            msg.Fingerprint, now)
                /\ UNCHANGED handlers
           ELSE UNCHANGED <<mingleZSet, handlers>>
    /\ lastHello' = NoHello
    /\ UNCHANGED now

(* the HelloServer branch of handlePacket: get under the zset's lock, then *)
(* the Meets and the HelloPeer; the handler returns its throttle token     *)
handleHelloServer(h) ==
    /\ BagIn(h, handlers)
    /\ LET r == getMinglers(mingleZSet, PeersToMeet, h.tnow)
       IN  /\ mingleZSet' = r.z
           /\ lastHello' = [valid |-> TRUE, src |-> h.src, fp |-> h.fp,
                            tnow |-> h.tnow, zBefore |-> mingleZSet,
                            zEls |-> r.zEls,
                            sent |-> helloServerSends(r.zEls, h.src, h.fp)]
    /\ handlers' = handlers (-) SetToBag({h})
    /\ UNCHANGED now

(* the expiry goroutine of Listen *)
expireTick ==
    /\ mingleZSet' = expire(mingleZSet, now - ReadyToMingleTimeout)
    /\ lastHello' = NoHello
    /\ UNCHANGED <<now, handlers>>

(* time passes *)
Tick ==
    /\ now < MaxTime
    /\ now' = now + 1
    /\ lastHello' = NoHello
    /\ UNCHANGED <<mingleZSet, handlers>>

(***************************************************************************)
(* Peer.  A peer is named by the address of its socket.                    *)
(***************************************************************************)
Peers == {"a4", "b4"}

NoPeer ==
    [conn |-> "none",            \* PacketConn: none, open, closed
     lastServerAddr |-> Nil, lastFingerprint |-> Nil, remoteAddr |-> Nil,
     peers |-> {}, closed |-> FALSE,
     closeCh |-> "open", wg |-> 0,
     gw |-> FALSE,               \* Peer.gw is set
     mapped |-> FALSE,           \* the gateway holds a port mapping
     l |-> Nil,                  \* the goroutine holding Peer.l
     ctx |-> "live",             \* the caller's context: live, canceled, deadline
     InitTimeoutUntilGateway |-> -1, ReadyToMingleInterval |-> 1,
     ctor |-> "none",            \* where NewPeer is
     reader |-> "idle", rmsg |-> NoMessage, raddr |-> Nil,   \* ReadFrom
     hb |-> "off",               \* spinReadyToMingle
     nat |-> "off",              \* spinNATForward
     closer |-> "idle",          \* a Close call of the owner
     firstHello |-> Nil,         \* body of the first HelloPeer processed
     heardPeer |-> FALSE,        \* a HelloPeer not from the server was processed
     connCloses |-> 0, chCloses |-> 0]

(* no datagram *)
NoFrame == [n |-> 0, ver |-> 0, fp |-> Nil, typ |-> invalid, mfp |-> Nil,
            proto |-> Nil, addr |-> Nil, ipn |-> 0]

NoRead ==
    [p |-> Nil, n |-> 0, src |-> Nil, err |-> Nil, b |-> NoFrame, fingerprint |-> Nil]

NoClose == [p |-> Nil, err |-> Nil]

(* the datagram a round of ReadFrom took off the socket *)
NoGot == [p |-> Nil, src |-> Nil, b |-> NoFrame, size |-> 0]

(* what a ResetPeers call returned, and the fingerprint it generated *)
NoReset == [p |-> Nil, err |-> Nil, fingerprint |-> Nil]

(* the last call on a zset: its arguments, the clock it read, the zset it *)
(* found and the elements it returned                                      *)
NoCall ==
    [op |-> Nil, addr |-> Nil, fingerprint |-> Nil, n |-> 0, t |-> 0,
     zBefore |-> newZSet, zEls |-> <<>>]

(* no codec call made by this step *)
NoCodec ==
    [op |-> Nil, m |-> NoMessage, b |-> NoFrame,
     u |-> [err |-> FALSE, msg |-> NoMessage]]

NoObs ==
    [sent |-> {}, read |-> NoRead, close |-> NoClose, got |-> NoGot,
     reset |-> NoReset, zset |-> NoCall, codec |-> NoCodec,
     held |-> Nil, touch |-> {}]

(* the step ran with Peer.l held in mode ("R" for RLock, "W" for Lock, Nil *)
(* for not at all) while it read or wrote the fields of the peer named in  *)
(* touch and made the socket writes of o.sent                              *)
Locked(o, mode, fields) == [o EXCEPT !.held = mode, !.touch = fields]

Obs(sent, read, close) ==
    [sent |-> sent, read |-> read, close |-> close, got |-> NoGot,
     reset |-> NoReset, zset |-> NoCall, codec |-> NoCodec,
     held |-> Nil, touch |-> {}]

(* serverAddr: resolves the server's address and remembers it *)
serverAddr(ps) == [ps EXCEPT !.lastServerAddr = ServerAddr]

(* resetPeers: forget the peers, take a new fingerprint, resolve the       *)
(* server and blast a HelloServer                                          *)
resetPeers_KeepFingerprint(ps, self, fp) ==
    [ps |-> serverAddr([ps EXCEPT !.peers = {}]),
     sent |-> {multiSend(self, ServerAddr, PacketBlastCount,
                         Message(HelloServer, fp, Nil, Nil))}]

resetPeers(ps, self, fp) ==
    [ps |-> serverAddr([ps EXCEPT !.peers = {}, !.lastFingerprint = fp]),
     sent |-> {multiSend(self, ServerAddr, PacketBlastCount,
                         Message(HelloServer, fp, Nil, Nil))}]

(* the Meet case of processMessage: a blast of HelloPeers to the address   *)
(* in the Meet, under the fingerprint in the Meet                          *)
meetReply_OwnFingerprint(ps, self, msg) ==
    {multiSend(self, msg.Addr, PacketBlastCount,
               Message(HelloPeer, ps.lastFingerprint, msg.Addr, Nil))}

meetReply(ps, self, msg) ==
    {multiSend(self, msg.Addr, PacketBlastCount,
               Message(HelloPeer, msg.MeetFingerprint, msg.Addr, Nil))}

(* addr.String() == p.lastServerAddr.String() *)
fromServer_Never(ps, addr) == FALSE

fromServer(ps, addr) == addr = ps.lastServerAddr

(* the eviction loop: a full map loses the entry the range meets first *)
evictOne_Never(ps, victim) == ps.peers

evictOne(ps, victim) ==
    IF Cardinality(ps.peers) >= MaxPeers THEN ps.peers \ {victim} ELSE ps.peers

(* p.peers[addrString] = addr: the map is keyed by the source address, so  *)
(* it is the set of its keys                                               *)
insertPeer_KeyedByBody(peers, addr, msg) == peers \cup {addr, msg.Addr}

insertPeer(peers, addr, msg) == peers \cup {addr}

(* processMessage; victim is the entry the range loop over the full peers  *)
(* map meets first                                                         *)
processMessage(ps, self, addr, msg, victim) ==
    IF msg.Type = Meet
    THEN [ps |-> ps, sent |-> meetReply(ps, self, msg)]
    ELSE IF msg.Type = HelloPeer
    THEN LET ps1 == [ps EXCEPT
                       !.remoteAddr = IF @ = Nil THEN msg.Addr ELSE @,
                       !.firstHello = IF @ = Nil THEN msg.Addr ELSE @,
                       !.heardPeer = @ \/ addr # ps.lastServerAddr]
         IN  IF fromServer(ps, addr)
             THEN [ps |-> ps1, sent |-> {}]
             ELSE [ps |-> [ps1 EXCEPT !.peers =
                             insertPeer(evictOne(ps, victim), addr, msg)],
                   sent |-> {}]
    ELSE [ps |-> ps, sent |-> {}]

(* the entries the eviction loop of processMessage may meet first *)
Victims(ps) == IF ps.peers = {} THEN {Nil} ELSE ps.peers

(* readyToMingle up to its Unlock: resolve the server under the lock *)
readyToMingleResolve(ps) == serverAddr(ps)

(* readyToMingle after its Unlock: blast ReadyToMingle with the            *)
(* fingerprint as it is now; a closed socket sends nothing                 *)
readyToMingleSend(ps, self) ==
    IF ps.conn = "open"
    THEN {multiSend(self, ps.lastServerAddr, PacketBlastCount,
                    Message(ReadyToMingle, ps.lastFingerprint, Nil, Nil))}
    ELSE {}

(* NewPeer up to the first hello wait: options, ListenPacket, and the      *)
(* resetPeers of meetPeer                                                  *)
NewPeer(p, fp, initTimeout, interval) ==
    /\ peer[p].ctor = "none"
    /\ LET ps == [peer[p] EXCEPT !.conn = "open",
                                 !.InitTimeoutUntilGateway = initTimeout,
                                 !.ReadyToMingleInterval = interval,
                                 !.ctor = "wait1"]
           r == resetPeers(ps, p, fp)
       IN  /\ peer' = [peer EXCEPT ![p] = r.ps]
           /\ obs' = Obs(r.sent, NoRead, NoClose)

(* afterWait without the test of InitTimeoutUntilGateway *)
afterWait_NoTimeoutTest(ps, werr) ==
    LET err == IF werr = "DeadlineExceeded" THEN "errNoHelloPeer" ELSE Nil
    IN  IF ps.ctor = "wait1" /\ err = "errNoHelloPeer"
        THEN "gateway"
        ELSE IF err # Nil THEN "closing" ELSE "ready"

(* what NewPeer does with the error waitForPeer returned ("hello" is nil): *)
(* meetPeer turns DeadlineExceeded into errNoHelloPeer and every other     *)
(* outcome into nil                                                        *)
afterWait(ps, werr) ==
    LET err == IF werr = "DeadlineExceeded" THEN "errNoHelloPeer" ELSE Nil
    IN  IF ps.ctor = "wait1" /\ ps.InitTimeoutUntilGateway > 0 /\ err = "errNoHelloPeer"
        THEN "gateway"
        ELSE IF err # Nil THEN "closing" ELSE "ready"

(* the context waitForPeer watches is done: the inner timeout of the first *)
(* wait, or the caller's context (which the caller cancels, or whose       *)
(* deadline passes, at any moment)                                         *)
waitForPeerDone(p, why) ==
    /\ peer[p].ctor \in {"wait1", "wait2"}
    /\ \/ /\ why = "inner"
          /\ peer[p].ctor = "wait1"
          /\ peer[p].InitTimeoutUntilGateway > 0
          /\ peer[p].ctx = "live"
          /\ peer' = [peer EXCEPT ![p].ctor = afterWait(peer[p], "DeadlineExceeded")]
       \/ /\ why = "deadline"
          /\ peer[p].ctx \in {"live", "deadline"}
          /\ peer' = [peer EXCEPT ![p].ctx = "deadline",
                                  ![p].ctor = afterWait(peer[p], "DeadlineExceeded")]
       \/ /\ why = "canceled"
          /\ peer[p].ctx \in {"live", "canceled"}
          /\ peer' = [peer EXCEPT ![p].ctx = "canceled",
                                  ![p].ctor = afterWait(peer[p], "Canceled")]
    /\ obs' = NoObs

(* the socket read of waitForPeer fails with an error that is no timeout *)
waitForPeerError(p) ==
    /\ peer[p].ctor \in {"wait1", "wait2"}
    /\ peer[p].ctx = "live"
    /\ peer' = [peer EXCEPT ![p].ctor = afterWait(peer[p], "socket error")]
    /\ obs' = NoObs

(* waitForPeer reads a datagram: dropped unless it unmarshals to a         *)
(* HelloPeer, which is processed and ends the wait                         *)
waitForPeer(p, pkt) ==
    /\ peer[p].ctor \in {"wait1", "wait2"}
    /\ peer[p].ctx = "live"
    /\ pkt.dst = p
    /\ LET u == UnmarshalBinary(Truncate(pkt.b, MaxMessageSize))
       IN  IF u.err \/ u.msg.Type # HelloPeer
           THEN /\ UNCHANGED peer
                /\ obs' = NoObs
           ELSE \E victim \in Victims(peer[p]) :
                   LET r == processMessage(peer[p], p, pkt.src, u.msg, victim)
                   IN  /\ peer' = [peer EXCEPT ![p] =
                                      [r.ps EXCEPT !.ctor = afterWait(peer[p], "hello")]]
                       /\ obs' = Obs(r.sent, NoRead, NoClose)

(* the NAT fallback of NewPeer: DiscoverGateway and natForward, either of  *)
(* which may fail, then meetPeer again under the caller's context          *)
gateway(p, fp, found, forwarded) ==
    /\ peer[p].ctor = "gateway"
    /\ IF ~found
       THEN /\ peer' = [peer EXCEPT ![p].ctor = "closing"]
            /\ obs' = NoObs
       ELSE IF ~forwarded
       THEN /\ peer' = [peer EXCEPT ![p].ctor = "closing", ![p].gw = TRUE]
            /\ obs' = NoObs
       ELSE LET r == resetPeers([peer[p] EXCEPT !.gw = TRUE, !.mapped = TRUE,
                                                !.ctor = "wait2"], p, fp)
            IN  /\ peer' = [peer EXCEPT ![p] = r.ps]
                /\ obs' = Obs(r.sent, NoRead, NoClose)

(* the end of a successful NewPeer: the first readyToMingle and the two    *)
(* background goroutines                                                   *)
NewPeerReturn(p) ==
    /\ peer[p].ctor = "ready"
    /\ LET mingle == peer[p].ReadyToMingleInterval > 0
           ps1 == IF mingle THEN readyToMingleResolve(peer[p]) ELSE peer[p]
       IN  /\ peer' = [peer EXCEPT ![p] =
                 [ps1 EXCEPT !.ctor = "ok",
                             !.wg = (IF mingle THEN 1 ELSE 0) + (IF ps1.gw THEN 1 ELSE 0),
                             !.hb = IF mingle THEN "select" ELSE "off",
                             !.nat = IF ps1.gw THEN "select" ELSE "off"]]
           /\ obs' = Obs(IF mingle THEN readyToMingleSend(ps1, p) ELSE {}, NoRead, NoClose)

(* Close up to wg.Wait: under the lock, refuse a closed peer, close the    *)
(* socket and the stop channel; the lock stays held                        *)
CloseBegin_IgnoreClosed(ps, who) ==
    [ps |-> [ps EXCEPT !.conn = "closed", !.connCloses = @ + 1,
                       !.closeCh = "closed", !.chCloses = @ + 1,
                       !.l = who],
     ret |-> Nil]

CloseBegin(ps, who) ==
    IF ps.closed
    THEN [ps |-> ps, ret |-> "already closed"]
    ELSE [ps |-> [ps EXCEPT !.conn = "closed", !.connCloses = @ + 1,
                            !.closeCh = "closed", !.chCloses = @ + 1,
                            !.l = who],
          ret |-> Nil]

(* Close from wg.Wait on: every background goroutine is done *)
CloseEnd(ps) == [ps EXCEPT !.closed = TRUE, !.l = Nil]

(* the Close of a failing NewPeer; no background goroutine runs yet *)
NewPeerFail(p) ==
    /\ peer[p].ctor = "closing"
    /\ peer[p].l = Nil
    /\ peer[p].wg = 0
    /\ peer' = [peer EXCEPT ![p] =
                   [CloseEnd(CloseBegin(peer[p], "ctor").ps) EXCEPT !.ctor = "failed"]]
    /\ obs' = NoObs

(* the owner of a constructed peer calls Close *)
CloseCall(p) ==
    /\ peer[p].ctor = "ok"
    /\ peer[p].closer = "idle"
    /\ peer' = [peer EXCEPT ![p].closer = "lock"]
    /\ obs' = NoObs

(* Close from its Lock up to wg.Wait, or to its return on a closed peer *)
Close(p) ==
    /\ peer[p].closer = "lock"
    /\ peer[p].l = Nil
    /\ LET r == CloseBegin(peer[p], "closer")
       IN  IF r.ret # Nil
           THEN /\ peer' = [peer EXCEPT ![p] = [r.ps EXCEPT !.closer = "idle"]]
                /\ obs' = Obs({}, NoRead, [p |-> p, err |-> r.ret])
           ELSE /\ peer' = [peer EXCEPT ![p] = [r.ps EXCEPT !.closer = "wgWait"]]
                /\ obs' = NoObs

(* Close from wg.Wait to its return *)
CloseWait(p) ==
    /\ peer[p].closer = "wgWait"
    /\ peer[p].wg = 0
    /\ peer' = [peer EXCEPT ![p] = [CloseEnd(peer[p]) EXCEPT !.closer = "idle"]]
    /\ obs' = Obs({}, NoRead, [p |-> p, err |-> Nil])

(* spinReadyToMingle: the select takes a tick or the closed stop channel   *)
spinReadyToMingleTick(p) ==
    /\ peer[p].hb = "select"
    /\ peer' = [peer EXCEPT ![p].hb = "lock"]
    /\ obs' = NoObs

spinReadyToMingleStop(p) ==
    /\ peer[p].hb = "select"
    /\ peer[p].closeCh = "closed"
    /\ peer' = [peer EXCEPT ![p].hb = "done", ![p].wg = @ - 1]
    /\ obs' = NoObs

(* readyToMingle in the heartbeat: Lock, serverAddr, Unlock *)
readyToMingleLock(p) ==
    /\ peer[p].hb = "lock"
    /\ peer[p].l = Nil
    /\ peer' = [peer EXCEPT ![p] = [readyToMingleResolve(peer[p]) EXCEPT !.hb = "send"]]
    /\ obs' = Locked(NoObs, "W", {"lastServerAddr"})

(* readyToMingle in the heartbeat: the multiSend after the Unlock *)
readyToMingle(p) ==
    /\ peer[p].hb = "send"
    /\ peer' = [peer EXCEPT ![p].hb = "select"]
    /\ obs' = Locked(Obs(readyToMingleSend(peer[p], p), NoRead, NoClose),
                     Nil, {"lastFingerprint"})

(* spinNATForward: a tick refreshes the mapping, the closed stop channel   *)
(* deletes it                                                              *)
natForward(p) ==
    /\ peer[p].nat = "select"
    /\ peer' = [peer EXCEPT ![p].mapped = TRUE]
    /\ obs' = NoObs

spinNATForwardStop(p) ==
    /\ peer[p].nat = "select"
    /\ peer[p].closeCh = "closed"
    /\ peer' = [peer EXCEPT ![p].nat = "done", ![p].mapped = FALSE, ![p].wg = @ - 1]
    /\ obs' = NoObs

(* ResetPeers, under the lock.  fp is what fingerprint() generates; the    *)
(* call fails after emptying the table when fingerprint() fails, after     *)
(* that and the new fingerprint when the server does not resolve, and      *)
(* after all of resetPeers when the socket is closed                       *)
ResetPeers(p, fp, outcome) ==
    /\ peer[p].ctor = "ok"
    /\ peer[p].l = Nil
    /\ LET r == resetPeers(peer[p], p, fp)
           ret(err) == [p |-> p, err |-> err, fingerprint |-> fp]
       IN  CASE outcome = "fingerprint" ->
                  /\ peer' = [peer EXCEPT ![p].peers = {}]
                  /\ obs' = Locked([NoObs EXCEPT !.reset = ret("fingerprint")],
                                   "W", {"peers"})
             [] outcome = "resolve" ->
                  /\ peer' = [peer EXCEPT ![p].peers = {}, ![p].lastFingerprint = fp]
                  /\ obs' = Locked([NoObs EXCEPT !.reset = ret("resolve")],
                                   "W", {"peers", "lastFingerprint"})
             [] OTHER ->
                  /\ peer' = [peer EXCEPT ![p] = r.ps]
                  /\ obs' = Locked(IF peer[p].conn = "open"
                                    THEN [NoObs EXCEPT !.sent = r.sent, !.reset = ret(Nil)]
                                    ELSE [NoObs EXCEPT !.reset = ret("closed")],
                                   "W", {"peers", "lastFingerprint", "lastServerAddr"})

Min(a, b) == IF a < b THEN a ELSE b

(* what ReadFrom hands to its caller: n bytes of datagram b from src, and  *)
(* the fingerprint the peer held at that moment                            *)
Returned(p, n, src, err, b) ==
    [p |-> p, n |-> n, src |-> src, err |-> err, b |-> b,
     fingerprint |-> peer[p].lastFingerprint]

(* ReadFrom on a closed socket returns the socket's error *)
ReadFromError(p) ==
    /\ peer[p].ctor = "ok"
    /\ peer[p].reader = "idle"
    /\ peer[p].conn = "closed"
    /\ UNCHANGED peer
    /\ obs' = Obs({}, Returned(p, 0, Nil, "closed", NoFrame), NoClose)

(* the comparison of bytes 1..64 with the fingerprint read under RLock *)
fingerprintMatches_Always(ps, b) == TRUE

fingerprintMatches(ps, b) == b.fp = ps.lastFingerprint

Got(p, pkt, size) == [p |-> p, src |-> pkt.src, b |-> pkt.b, size |-> size]

(* a round of ReadFrom that returns the datagram to the caller *)
ReadFromReturn(p, pkt, size) ==
    [Obs({}, Returned(p, Min(pkt.b.n, size), pkt.src, Nil, pkt.b), NoClose)
        EXCEPT !.got = Got(p, pkt, size)]

(* one round of ReadFrom's loop up to processMessage: the socket read into *)
(* the caller's buffer of size bytes, the size and version tests, the      *)
(* fingerprint comparison under RLock, and UnmarshalBinary                 *)
ReadFrom(p, pkt, size) ==
    /\ peer[p].ctor = "ok"
    /\ peer[p].reader = "idle"
    /\ peer[p].conn = "open"
    /\ peer[p].l = Nil
    /\ pkt.dst = p
    /\ size >= MaxMessageSize
    /\ LET n == Min(pkt.b.n, size)
           b == Truncate(pkt.b, size)
           u == UnmarshalBinary(b)
       IN  IF n > MaxMessageSize \/ n < MinMessageSize \/ b.ver # 0
           THEN /\ UNCHANGED peer
                /\ obs' = ReadFromReturn(p, pkt, size)
           ELSE IF ~fingerprintMatches(peer[p], b)
           THEN /\ UNCHANGED peer
                /\ obs' = Locked(ReadFromReturn(p, pkt, size), "R", {"lastFingerprint"})
           ELSE IF u.err
           THEN /\ UNCHANGED peer
                /\ obs' = Locked(ReadFromReturn(p, pkt, size), "R", {"lastFingerprint"})
           ELSE /\ peer' = [peer EXCEPT ![p].reader = "process",
                                        ![p].rmsg = u.msg, ![p].raddr = pkt.src]
                /\ obs' = Locked([NoObs EXCEPT !.got = Got(p, pkt, size)],
                                 "R", {"lastFingerprint"})

(* ReadFrom: processMessage under the lock, then the next round *)
ReadFromProcess(p) ==
    /\ peer[p].reader = "process"
    /\ peer[p].l = Nil
    /\ \E victim \in Victims(peer[p]) :
          LET r == processMessage(peer[p], p, peer[p].raddr, peer[p].rmsg, victim)
          IN  /\ peer' = [peer EXCEPT ![p] =
                             [r.ps EXCEPT !.reader = "idle", !.rmsg = NoMessage,
                                          !.raddr = Nil]]
              /\ obs' = Locked(Obs(r.sent, NoRead, NoClose), "W",
                               IF peer[p].rmsg.Type = HelloPeer
                               THEN {"remoteAddr", "lastServerAddr", "peers"}
                               ELSE {})

(***************************************************************************)
(* Server.Listen: the reading loop, its throttle and WaitGroup, the expiry *)
(* goroutine and the handler goroutines.  A handler goroutine is named by  *)
(* a slot; there is one slot more than the throttle has tokens.            *)
(***************************************************************************)
Slots == 1..(MaxConcurrent + 1)

NoTask == [pc |-> "idle", src |-> Nil, b |-> NoFrame, tnow |-> 0, errs |-> 0]

NoDatagram == [src |-> Nil, b |-> NoFrame]

(* Server.FingerprintCheck: nil, or a function accepting some fingerprints *)
NoCheck == [set |-> FALSE, accepts |-> {}]

(* Server.ErrCh: nil, or a channel that can take room more errors at once  *)
NoErrCh == [attached |-> FALSE, cap |-> 0, room |-> 0]

NewServer(check, errCh) ==
    [pc |-> "new", ret |-> Nil, ctxDone |-> FALSE,
     FingerprintCheck |-> check, ErrCh |-> errCh,
     throttle |-> 0, wg |-> 0, expiry |-> "none", pending |-> NoDatagram,
     tasks |-> [k \in Slots |-> NoTask]]

NoListen == NewServer(NoCheck, NoErrCh)

ListenFrame == UNCHANGED <<handlers, lastHello, net, peer>>

inFlight(s) == Cardinality({k \in Slots : s.tasks[k].pc # "idle"})

(* net.ListenPacket, then the expiry goroutine and the filled throttle *)
Listen ==
    /\ srv.pc = "new"
    /\ \E ok \in BOOLEAN :
          srv' = IF ok
                 THEN [srv EXCEPT !.pc = "loop", !.wg = 1, !.expiry = "running",
                                  !.throttle = MaxConcurrent]
                 ELSE [srv EXCEPT !.pc = "returned", !.ret = "listen"]
    /\ obs' = NoObs
    /\ UNCHANGED <<now, mingleZSet>>
    /\ ListenFrame

(* the top of the loop: ctx.Err() *)
ListenCtxErr ==
    /\ srv.pc = "loop"
    /\ srv' = IF srv.ctxDone
              THEN [srv EXCEPT !.pc = "wait", !.ret = "canceled"]
              ELSE [srv EXCEPT !.pc = "read"]
    /\ obs' = NoObs
    /\ UNCHANGED <<now, mingleZSet>>
    /\ ListenFrame

(* conn.ReadFrom(b) returns a datagram, cut to the MaxMessageSize buffer *)
ListenReadFrom(pkt) ==
    /\ srv.pc = "read"
    /\ srv' = [srv EXCEPT !.pc = "throttle",
                          !.pending = [src |-> pkt.src,
                                       b |-> Truncate(pkt.b, MaxMessageSize)]]
    /\ obs' = NoObs
    /\ UNCHANGED <<now, mingleZSet>>
    /\ ListenFrame

(* conn.ReadFrom(b) runs into its one second deadline: continue *)
ListenReadTimeout ==
    /\ srv.pc = "read"
    /\ srv' = [srv EXCEPT !.pc = "loop"]
    /\ obs' = NoObs
    /\ UNCHANGED <<now, mingleZSet>>
    /\ ListenFrame

(* conn.ReadFrom(b) fails otherwise: return err, into the deferred wait *)
ListenReadError ==
    /\ srv.pc = "read"
    /\ srv' = [srv EXCEPT !.pc = "wait", !.ret = "read"]
    /\ obs' = NoObs
    /\ UNCHANGED <<now, mingleZSet>>
    /\ ListenFrame

(* <-throttle can proceed *)
canAdmit_Always(s) == TRUE

canAdmit(s) == s.throttle > 0

FreeSlot(s) ==
    CHOOSE k \in Slots :
        /\ s.tasks[k].pc = "idle"
        /\ \A j \in 1..(k - 1) : s.tasks[j].pc # "idle"

(* <-throttle; wg.Add(1); go func(b[:n], srcAddr) *)
ListenThrottle ==
    /\ srv.pc = "throttle"
    /\ canAdmit(srv)
    /\ \E k \in Slots : srv.tasks[k].pc = "idle"
    /\ srv' = [srv EXCEPT !.pc = "loop",
                          !.throttle = @ - 1,
                          !.wg = @ + 1,
                          !.pending = NoDatagram,
                          !.tasks[FreeSlot(srv)] =
                              [pc |-> "start", src |-> srv.pending.src,
                               b |-> srv.pending.b, tnow |-> 0, errs |-> 0]]
    /\ obs' = NoObs
    /\ UNCHANGED <<now, mingleZSet>>
    /\ ListenFrame

(* wg.Wait() can proceed *)
waitDone_Always(s) == TRUE

waitDone(s) == s.wg = 0

(* the deferred wg.Wait() returns and with it Listen *)
ListenReturn ==
    /\ srv.pc = "wait"
    /\ waitDone(srv)
    /\ srv' = [srv EXCEPT !.pc = "returned"]
    /\ obs' = NoObs
    /\ UNCHANGED <<now, mingleZSet>>
    /\ ListenFrame

(* the expiry goroutine: a tick of its ticker *)
ListenExpire ==
    /\ srv.expiry = "running"
    /\ mingleZSet' = expire(mingleZSet, now - ReadyToMingleTimeout)
    /\ obs' = NoObs
    /\ UNCHANGED <<now, srv>>
    /\ ListenFrame

(* the expiry goroutine: <-ctx.Done(), return, wg.Done() *)
ListenExpireDone ==
    /\ srv.expiry = "running"
    /\ srv.ctxDone
    /\ srv' = [srv EXCEPT !.expiry = "done", !.wg = @ - 1]
    /\ obs' = NoObs
    /\ UNCHANGED <<now, mingleZSet>>
    /\ ListenFrame

(* s.FingerprintCheck != nil && !s.FingerprintCheck(msg.Fingerprint) *)
rejected_Never(s, msg) == FALSE

rejected(s, msg) ==
    s.FingerprintCheck.set /\ msg.Fingerprint \notin s.FingerprintCheck.accepts

(* handlePacket up to its first shared operation: unmarshal, fingerprint   *)
(* check, and then the add of a ReadyToMingle or the clock reading of      *)
(* getMinglers for a HelloServer                                           *)
handlePacketBegin(k) ==
    /\ srv.tasks[k].pc = "start"
    /\ LET t == srv.tasks[k]
           u == UnmarshalBinary(t.b)
           msg == u.msg
       IN  IF u.err
           THEN /\ srv' = [srv EXCEPT !.tasks[k].pc = "err", !.tasks[k].errs = 1]
                /\ UNCHANGED mingleZSet
           ELSE IF rejected(srv, msg)
           THEN /\ srv' = [srv EXCEPT !.tasks[k].pc = "done"]
                /\ UNCHANGED mingleZSet
           ELSE IF msg.Type = HelloServer
           THEN /\ srv' = [srv EXCEPT !.tasks[k].pc = "get", !.tasks[k].tnow = now]
                /\ UNCHANGED mingleZSet
           ELSE IF msg.Type = ReadyToMingle
           THEN /\ mingleZSet' = addMingler(mingleZSet, t.src, msg.Fingerprint, now)
                /\ srv' = [srv EXCEPT !.tasks[k].pc = "done"]
           ELSE /\ srv' = [srv EXCEPT !.tasks[k].pc = "done"]
                /\ UNCHANGED mingleZSet
    /\ obs' = NoObs
    /\ UNCHANGED now
    /\ ListenFrame

(* the HelloServer branch: get under the zset's lock, then the multiSends, *)
(* of which up to MaxSendErrors fail and leave an error to report          *)
handlePacketHelloServer(k) ==
    /\ srv.tasks[k].pc = "get"
    /\ LET t == srv.tasks[k]
           r == getMinglers(mingleZSet, PeersToMeet, t.tnow)
           sends == helloServerSends(r.zEls, t.src, t.b.fp)
       IN  /\ mingleZSet' = r.z
           /\ \E failed \in SUBSET sends :
                 /\ Cardinality(failed) <= MaxSendErrors
                 /\ obs' = Obs(sends \ failed, NoRead, NoClose)
                 /\ srv' = [srv EXCEPT
                               !.tasks[k].pc = IF failed = {} THEN "done" ELSE "err",
                               !.tasks[k].errs = Cardinality(failed)]
    /\ UNCHANGED now
    /\ ListenFrame

(* Server.err returns: ErrCh is nil, or the select takes the send or the   *)
(* default                                                                 *)
errReturns_WhenAccepted(ch) == ch.attached /\ ch.room > 0

errReturns(ch) == TRUE

(* ErrCh after Server.err *)
err(ch) ==
    IF ~ch.attached THEN ch
    ELSE IF ch.room > 0 THEN [ch EXCEPT !.room = @ - 1]
    ELSE ch

(* s.err(err) in a handler *)
handlePacketErr(k) ==
    /\ srv.tasks[k].pc = "err"
    /\ errReturns(srv.ErrCh)
    /\ srv' = [srv EXCEPT !.ErrCh = err(srv.ErrCh),
                          !.tasks[k].errs = @ - 1,
                          !.tasks[k].pc = IF srv.tasks[k].errs > 1 THEN "err" ELSE "done"]
    /\ obs' = NoObs
    /\ UNCHANGED <<now, mingleZSet>>
    /\ ListenFrame

(* handlePacket has returned: throttle <- struct{}{}, then wg.Done() *)
handlerDone(k) ==
    /\ srv.tasks[k].pc = "done"
    /\ srv' = [srv EXCEPT !.throttle = @ + 1, !.wg = @ - 1, !.tasks[k] = NoTask]
    /\ obs' = NoObs
    /\ UNCHANGED <<now, mingleZSet>>
    /\ ListenFrame

(* the caller cancels the context *)
ctxCancel ==
    /\ ~srv.ctxDone
    /\ srv' = [srv EXCEPT !.ctxDone = TRUE]
    /\ obs' = NoObs
    /\ UNCHANGED <<now, mingleZSet>>
    /\ ListenFrame

(* the owner of ErrCh receives what the channel holds *)
ErrChReceive ==
    /\ srv.ErrCh.attached
    /\ srv.ErrCh.room < srv.ErrCh.cap
    /\ srv' = [srv EXCEPT !.ErrCh.room = srv.ErrCh.cap]
    /\ obs' = NoObs
    /\ UNCHANGED <<now, mingleZSet>>
    /\ ListenFrame

ListenTick ==
    /\ now < MaxTime
    /\ now' = now + 1
    /\ obs' = NoObs
    /\ UNCHANGED <<mingleZSet, srv>>
    /\ ListenFrame

(* the datagrams the server's socket receives: a4 mingles under either    *)
(* fingerprint, c6 says hello, b4 sends a frame of another version and a   *)
(* HelloPeer                                                               *)
ListenDatagrams ==
    {Packet("a4", ServerAddr, MarshalBinary(Message(ReadyToMingle, "f1", Nil, Nil)), 1),
     Packet("a4", ServerAddr, MarshalBinary(Message(ReadyToMingle, "f2", Nil, Nil)), 1),
     Packet("c6", ServerAddr, MarshalBinary(Message(HelloServer, "f2", Nil, Nil)), 1),
     Packet("b4", ServerAddr,
            [MarshalBinary(Message(HelloServer, "f1", Nil, Nil)) EXCEPT !.ver = 1], 1),
     Packet("b4", ServerAddr, MarshalBinary(Message(HelloPeer, "f1", "b4", Nil)), 1)}

(* the servers Listen is called on: FingerprintCheck nil or accepting f1   *)
(* only, ErrCh nil or a channel with room for one error                    *)
Servers ==
    {NewServer(check, errCh) :
        check \in {NoCheck, [set |-> TRUE, accepts |-> {"f1"}]},
        errCh \in {NoErrCh, [attached |-> TRUE, cap |-> 1, room |-> 1]}}

InitListen ==
    /\ now = 0
    /\ mingleZSet = newZSet
    /\ handlers = EmptyBag
    /\ lastHello = NoHello
    /\ net = {}
    /\ peer = [p \in Peers |-> NoPeer]
    /\ srv \in Servers
    /\ obs = NoObs

(* with the clock standing still: the server as NewServer makes it, and    *)
(* the one with FingerprintCheck and ErrCh both set                        *)
InitListenStill ==
    /\ now = 0
    /\ mingleZSet = newZSet
    /\ handlers = EmptyBag
    /\ lastHello = NoHello
    /\ net = {}
    /\ peer = [p \in Peers |-> NoPeer]
    /\ srv \in {s \in Servers : s.FingerprintCheck.set = s.ErrCh.attached}
    /\ obs = NoObs

LReadFrom == \E pkt \in ListenDatagrams : ListenReadFrom(pkt)

LHandlePacketBegin == \E k \in Slots : handlePacketBegin(k)

LHandlePacketHelloServer == \E k \in Slots : handlePacketHelloServer(k)

LHandlePacketErr == \E k \in Slots : handlePacketErr(k)

LHandlerDone == \E k \in Slots : handlerDone(k)

NextListen ==
    \/ Listen
    \/ ListenCtxErr
    \/ LReadFrom
    \/ ListenReadTimeout
    \/ ListenReadError
    \/ ListenThrottle
    \/ ListenReturn
    \/ ListenExpire
    \/ ListenExpireDone
    \/ LHandlePacketBegin
    \/ LHandlePacketHelloServer
    \/ LHandlePacketErr
    \/ LHandlerDone
    \/ ctxCancel
    \/ ErrChReceive
    \/ ListenTick

(* the same with the clock standing still *)
NextListenStill ==
    \/ Listen
    \/ ListenCtxErr
    \/ LReadFrom
    \/ ListenReadTimeout
    \/ ListenReadError
    \/ ListenThrottle
    \/ ListenReturn
    \/ ListenExpire
    \/ ListenExpireDone
    \/ LHandlePacketBegin
    \/ LHandlePacketHelloServer
    \/ LHandlePacketErr
    \/ LHandlerDone
    \/ ctxCancel
    \/ ErrChReceive

(***************************************************************************)
(* The server on its own: a4 mingles under either fingerprint, b4 and c6   *)
(* under f1; b4 is the newcomer.                                           *)
(***************************************************************************)
FPsOf(a) == IF a = "a4" THEN FPs ELSE {"f1"}

Newcomers == {"b4"}

ServerDatagrams ==
    UNION {{Packet(a, ServerAddr,
                   MarshalBinary(Message(ReadyToMingle, f, Nil, Nil)), 1) :
               f \in FPsOf(a)} : a \in Addrs}
    \cup
    {Packet(a, ServerAddr, MarshalBinary(Message(HelloServer, "f2", Nil, Nil)), 1) :
        a \in Newcomers}
    \cup
    {Packet("b4", ServerAddr,
            [MarshalBinary(Message(HelloServer, "f1", Nil, Nil)) EXCEPT !.ver = 1], 1)}

Init ==
    /\ now = 0
    /\ mingleZSet = newZSet
    /\ handlers = EmptyBag
    /\ lastHello = NoHello
    /\ net = {}
    /\ peer = [p \in Peers |-> NoPeer]
    /\ srv = NoListen
    /\ obs = NoObs

SrvHandlePacket == (\E pkt \in ServerDatagrams : handlePacket(pkt)) /\ UNCHANGED <<net, peer, obs, srv>>

SrvHandleHelloServer ==
    (\E h \in BagToSet(handlers) : handleHelloServer(h)) /\ UNCHANGED <<net, peer, obs, srv>>

SrvExpire == expireTick /\ UNCHANGED <<net, peer, obs, srv>>

SrvTick == Tick /\ UNCHANGED <<net, peer, obs, srv>>

Next ==
    \/ SrvHandlePacket
    \/ SrvHandleHelloServer
    \/ SrvExpire
    \/ SrvTick

vars == <<now, mingleZSet, handlers, lastHello, net, peer, srv, obs>>

Spec == Init /\ [][Next]_vars

SpecListen == InitListen /\ [][NextListen]_vars

(* every goroutine that can take a step is scheduled; a read ends with a   *)
(* datagram, an error or the deadline; nothing obliges the caller to       *)
(* cancel the context, the owner of ErrCh to receive, or a peer to send    *)
SpecListenFair ==
    /\ InitListenStill
    /\ [][NextListenStill]_vars
    /\ WF_vars(ListenCtxErr)
    /\ WF_vars(ListenReadTimeout)
    /\ WF_vars(ListenThrottle)
    /\ WF_vars(ListenReturn)
    /\ WF_vars(ListenExpireDone)
    /\ \A k \in Slots : WF_vars(handlePacketBegin(k))
    /\ \A k \in Slots : WF_vars(handlePacketHelloServer(k))
    /\ \A k \in Slots : WF_vars(handlePacketErr(k))
    /\ \A k \in Slots : WF_vars(handlerDone(k))

(***************************************************************************)
(* The zset on its own: add, get and expire called with any arguments, in  *)
(* any order, as the clock advances.                                       *)
(***************************************************************************)
Call(op, addr, fingerprint, n, t, zEls) ==
    [op |-> op, addr |-> addr, fingerprint |-> fingerprint, n |-> n, t |-> t,
     zBefore |-> mingleZSet, zEls |-> zEls]

ZFrame == UNCHANGED <<handlers, lastHello, net, peer, srv>>

ZAdd ==
    /\ \E addr \in Addrs, fingerprint \in FPs :
          /\ mingleZSet' = add(mingleZSet, addr, fingerprint, now)
          /\ obs' = [NoObs EXCEPT !.zset = Call("add", addr, fingerprint, 0, now, <<>>)]
    /\ UNCHANGED now
    /\ ZFrame

ZGet ==
    /\ \E n \in 0..MaxGet, min \in -1..MaxTime :
          LET r == get(mingleZSet, n, min)
          IN  /\ mingleZSet' = r.z
              /\ obs' = [NoObs EXCEPT !.zset = Call("get", Nil, Nil, n, min, r.zEls)]
    /\ UNCHANGED now
    /\ ZFrame

ZExpire ==
    /\ \E t \in -1..MaxTime :
          /\ mingleZSet' = expire(mingleZSet, t)
          /\ obs' = [NoObs EXCEPT !.zset = Call("expire", Nil, Nil, 0, t, <<>>)]
    /\ UNCHANGED now
    /\ ZFrame

ZTick ==
    /\ now < MaxTime
    /\ now' = now + 1
    /\ obs' = NoObs
    /\ UNCHANGED mingleZSet
    /\ ZFrame

NextZSet ==
    \/ ZAdd
    \/ ZGet
    \/ ZExpire
    \/ ZTick

SpecZSet == Init /\ [][NextZSet]_vars

(***************************************************************************)
(* The codec on its own: messages are marshalled and read back, and frames *)
(* of every shape are handed to UnmarshalBinary.  obs.codec records the    *)
(* call: the message, the frame and what UnmarshalBinary returned.         *)
(***************************************************************************)
CodecFrame == UNCHANGED <<now, mingleZSet, handlers, lastHello, net, peer, srv>>

(* the messages of TestMessage: each type, IPv4 and IPv6 addresses *)
CodecMessages ==
    {Message(t, fp, Nil, Nil) : t \in {HelloServer, ReadyToMingle}, fp \in FPs}
    \cup {Message(HelloPeer, fp, a, Nil) : fp \in FPs, a \in Addrs}
    \cup {Message(Meet, fp, a, mfp) : fp \in FPs, a \in Addrs, mfp \in FPs}

(* frame lengths around every boundary UnmarshalBinary tests *)
FrameLens == {0, 1, 65, 66, 67, 68, 69, 72, 73, 74, 84, 85, 86, 137, 149}

CodecFrames ==
    {Frame(n, ver, "f1", typ, mfp, proto, addr, IPLen(addr)) :
        n \in FrameLens, ver \in {0, 1}, typ \in 0..(invalid + 1),
        mfp \in {"f2"}, proto \in {0, 1}, addr \in {"b4", "c6"}}

(* msg.MarshalBinary() followed by msg2.UnmarshalBinary(b) *)
TestMessage ==
    /\ \E m \in CodecMessages :
          obs' = [NoObs EXCEPT !.codec =
                     [op |-> "roundtrip", m |-> m, b |-> MarshalBinary(m),
                      u |-> UnmarshalBinary(MarshalBinary(m))]]
    /\ CodecFrame

(* m.UnmarshalBinary(b) of a frame taken off the wire *)
Decode ==
    /\ \E b \in CodecFrames :
          obs' = [NoObs EXCEPT !.codec =
                     [op |-> "decode", m |-> NoMessage, b |-> b,
                      u |-> UnmarshalBinary(b)]]
    /\ CodecFrame

NextCodec ==
    \/ TestMessage
    \/ Decode

SpecCodec == Init /\ [][NextCodec]_vars

(***************************************************************************)
(* One peer on its own: a4 is constructed, read from and closed by its     *)
(* owner while any of these datagrams may arrive at its socket.            *)
(***************************************************************************)
Self == "a4"

(* the addresses other peers send from *)
Sources == {"b4", "c6", "d4"}

AppData(n, ver, fp) == Frame(n, ver, fp, 0, Nil, Nil, Nil, 0)

PeerDatagrams ==
    {Packet(src, Self, MarshalBinary(Message(HelloPeer, f, a, Nil)), 1) :
        src \in {ServerAddr} \cup Sources, f \in FPs, a \in {Self, "c6"}}
    \cup
    {Packet(ServerAddr, Self, MarshalBinary(Message(Meet, f, "b4", "f2")), 1) : f \in FPs}
    \cup
    {Packet("b4", Self, MarshalBinary(Message(t, "f1", Nil, Nil)), 1) :
        t \in {HelloServer, ReadyToMingle}}
    \cup
    {Packet("b4", Self, b, 1) :
        b \in {AppData(BigBuf, 0, "f1"), AppData(10, 0, "f1"),
               AppData(MinMessageSize, 1, "f1"), AppData(MinMessageSize, 0, "other"),
               [MarshalBinary(Message(HelloPeer, "f1", Self, Nil)) EXCEPT !.n = @ - 1]}}

srvVars == <<now, mingleZSet, handlers, lastHello, srv>>

PNewPeer ==
    /\ \E t \in {-1, 1}, i \in {-1, 1} : NewPeer(Self, "f1", t, i)
    /\ UNCHANGED <<srvVars, net>>

PWaitForPeerDone ==
    /\ \E why \in {"inner", "deadline", "canceled"} : waitForPeerDone(Self, why)
    /\ UNCHANGED <<srvVars, net>>

PWaitForPeerError == waitForPeerError(Self) /\ UNCHANGED <<srvVars, net>>

PWaitForPeer ==
    /\ \E pkt \in PeerDatagrams : waitForPeer(Self, pkt)
    /\ UNCHANGED <<srvVars, net>>

PGateway ==
    /\ \E found \in BOOLEAN, forwarded \in BOOLEAN : gateway(Self, "f2", found, forwarded)
    /\ UNCHANGED <<srvVars, net>>

PNewPeerReturn == NewPeerReturn(Self) /\ UNCHANGED <<srvVars, net>>

PNewPeerFail == NewPeerFail(Self) /\ UNCHANGED <<srvVars, net>>

PCloseCall == CloseCall(Self) /\ UNCHANGED <<srvVars, net>>

PClose == Close(Self) /\ UNCHANGED <<srvVars, net>>

PCloseWait == CloseWait(Self) /\ UNCHANGED <<srvVars, net>>

PSpinReadyToMingleTick == spinReadyToMingleTick(Self) /\ UNCHANGED <<srvVars, net>>

PSpinReadyToMingleStop == spinReadyToMingleStop(Self) /\ UNCHANGED <<srvVars, net>>

PReadyToMingleLock == readyToMingleLock(Self) /\ UNCHANGED <<srvVars, net>>

PReadyToMingle == readyToMingle(Self) /\ UNCHANGED <<srvVars, net>>

PNatForward == natForward(Self) /\ UNCHANGED <<srvVars, net>>

PSpinNATForwardStop == spinNATForwardStop(Self) /\ UNCHANGED <<srvVars, net>>

PReadFromError == ReadFromError(Self) /\ UNCHANGED <<srvVars, net>>

PReadFrom ==
    /\ \E pkt \in PeerDatagrams, size \in {MaxMessageSize, BigBuf} : ReadFrom(Self, pkt, size)
    /\ UNCHANGED <<srvVars, net>>

PReadFromProcess == ReadFromProcess(Self) /\ UNCHANGED <<srvVars, net>>

PResetPeers ==
    /\ \E fp \in FPs, outcome \in {"ok", "fingerprint", "resolve"} :
          ResetPeers(Self, fp, outcome)
    /\ UNCHANGED <<srvVars, net>>

(* the steps the goroutines of a peer take on their own *)
PeerRuns ==
    \/ PNewPeerReturn
    \/ PNewPeerFail
    \/ PClose
    \/ PCloseWait
    \/ PSpinReadyToMingleStop
    \/ PReadyToMingleLock
    \/ PReadyToMingle
    \/ PSpinNATForwardStop
    \/ PReadFromProcess

NextPeer ==
    \/ PNewPeer
    \/ PWaitForPeerDone
    \/ PWaitForPeerError
    \/ PWaitForPeer
    \/ PGateway
    \/ PCloseCall
    \/ PSpinReadyToMingleTick
    \/ PNatForward
    \/ PReadFromError
    \/ PReadFrom
    \/ PResetPeers
    \/ PeerRuns

SpecPeer == Init /\ [][NextPeer]_vars

(* a runnable goroutine is eventually run *)
SpecPeerFair ==
    /\ Init
    /\ [][NextPeer]_vars
    /\ WF_vars(PNewPeerReturn)
    /\ WF_vars(PNewPeerFail)
    /\ WF_vars(PClose)
    /\ WF_vars(PCloseWait)
    /\ WF_vars(PSpinReadyToMingleStop)
    /\ WF_vars(PReadyToMingleLock)
    /\ WF_vars(PReadyToMingle)
    /\ WF_vars(PSpinNATForwardStop)
    /\ WF_vars(PReadFromProcess)

(***************************************************************************)
(* processMessage on its own: a constructed peer in any state of its       *)
(* table, and any decoded message from any source handed to it.            *)
(***************************************************************************)
Messages ==
    {Message(Meet, f, x, g) : f \in FPs, x \in {"b4", "c6"}, g \in FPs}
    \cup
    {Message(HelloPeer, f, a, Nil) : f \in FPs, a \in {Self, "c6"}}
    \cup
    {Message(t, f, Nil, Nil) : t \in {HelloServer, ReadyToMingle}, f \in FPs}

(* a peer NewPeer has returned, without heartbeat and NAT mapping *)
ConstructedPeer(fp, remote, known) ==
    [NoPeer EXCEPT !.conn = "open", !.ctor = "ok",
                   !.lastFingerprint = fp, !.lastServerAddr = ServerAddr,
                   !.remoteAddr = remote, !.firstHello = remote,
                   !.peers = known, !.heardPeer = known # {},
                   !.ReadyToMingleInterval = -1]

InitMsg ==
    /\ now = 0
    /\ mingleZSet = newZSet
    /\ handlers = EmptyBag
    /\ lastHello = NoHello
    /\ net = {}
    /\ srv = NoListen
    /\ obs = NoObs
    /\ \E fp \in FPs, remote \in {Nil, Self},
          known \in {k \in SUBSET Sources : Cardinality(k) <= MaxPeers} :
          peer = [p \in Peers |->
                     IF p = Self THEN ConstructedPeer(fp, remote, known) ELSE NoPeer]

(* ReadFrom reaches its call of processMessage with addr and msg *)
processMessageCall(p, addr, msg) ==
    /\ peer[p].ctor = "ok"
    /\ peer[p].reader = "idle"
    /\ peer' = [peer EXCEPT ![p].reader = "process", ![p].rmsg = msg,
                            ![p].raddr = addr]
    /\ obs' = NoObs

MProcessMessageCall ==
    /\ \E addr \in Sources \cup {ServerAddr}, msg \in Messages :
          processMessageCall(Self, addr, msg)
    /\ UNCHANGED <<srvVars, net>>

MProcessMessage == ReadFromProcess(Self) /\ UNCHANGED <<srvVars, net>>

NextMsg ==
    \/ MProcessMessageCall
    \/ MProcessMessage

SpecMsg == InitMsg /\ [][NextMsg]_vars

(***************************************************************************)
(* The server and the peers a4 and b4 on one network.  net holds the       *)
(* datagrams in flight: none is lost, and the copies of a blast arrive as  *)
(* one datagram or as several.  a4 runs the heartbeat, b4 does not.  The   *)
(* clock stands still, so that no mingler expires during an introduction.  *)
(***************************************************************************)
SysFingerprint(p) == IF p = "a4" THEN "f1" ELSE "f2"

SysInterval(p) == IF p = "a4" THEN 1 ELSE -1

(* what is in flight once the socket of pkt.dst has read pkt: nothing more *)
(* of it, or further copies of the blast                                   *)
Deliver(pkt) == {net \ {pkt}} \cup (IF pkt.copies > 1 THEN {net} ELSE {})

SysPeerFrame == lastHello' = NoHello /\ UNCHANGED <<now, mingleZSet, handlers, srv>>

SysNewPeer ==
    /\ \E p \in Peers : NewPeer(p, SysFingerprint(p), -1, SysInterval(p))
    /\ net' = net \cup obs'.sent
    /\ SysPeerFrame

SysWaitForPeerDone ==
    /\ \E p \in Peers : waitForPeerDone(p, "deadline")
    /\ UNCHANGED net
    /\ SysPeerFrame

SysWaitForPeerBy(p) ==
    /\ \E pkt \in net :
          /\ waitForPeer(p, pkt)
          /\ \E rest \in Deliver(pkt) : net' = rest \cup obs'.sent
    /\ SysPeerFrame

SysWaitForPeer == \E p \in Peers : SysWaitForPeerBy(p)

SysNewPeerReturn ==
    /\ \E p \in Peers : NewPeerReturn(p)
    /\ net' = net \cup obs'.sent
    /\ SysPeerFrame

SysNewPeerFail ==
    /\ \E p \in Peers : NewPeerFail(p)
    /\ UNCHANGED net
    /\ SysPeerFrame

SysSpinReadyToMingleTick ==
    /\ \E p \in Peers : spinReadyToMingleTick(p)
    /\ UNCHANGED net
    /\ SysPeerFrame

SysReadyToMingleLock ==
    /\ \E p \in Peers : readyToMingleLock(p)
    /\ UNCHANGED net
    /\ SysPeerFrame

SysReadyToMingle ==
    /\ \E p \in Peers : readyToMingle(p)
    /\ net' = net \cup obs'.sent
    /\ SysPeerFrame

SysReadFromBy(p) ==
    /\ \E pkt \in net :
          /\ ReadFrom(p, pkt, MaxMessageSize)
          /\ net' \in Deliver(pkt)
    /\ SysPeerFrame

SysReadFrom == \E p \in Peers : SysReadFromBy(p)

SysReadFromProcessBy(p) ==
    /\ ReadFromProcess(p)
    /\ net' = net \cup obs'.sent
    /\ SysPeerFrame

SysReadFromProcess == \E p \in Peers : SysReadFromProcessBy(p)

SysHandlePacket ==
    /\ \E pkt \in net :
          /\ pkt.dst = ServerAddr
          /\ handlePacket(pkt)
          /\ net' \in Deliver(pkt)
    /\ obs' = NoObs
    /\ UNCHANGED <<peer, srv>>

SysHandleHelloServer ==
    /\ \E h \in BagToSet(handlers) : handleHelloServer(h)
    /\ net' = net \cup lastHello'.sent
    /\ obs' = NoObs
    /\ UNCHANGED <<peer, srv>>

NextSys ==
    \/ SysNewPeer
    \/ SysWaitForPeerDone
    \/ SysWaitForPeer
    \/ SysNewPeerReturn
    \/ SysNewPeerFail
    \/ SysSpinReadyToMingleTick
    \/ SysReadyToMingleLock
    \/ SysReadyToMingle
    \/ SysReadFrom
    \/ SysReadFromProcess
    \/ SysHandlePacket
    \/ SysHandleHelloServer

Sys == Init /\ [][NextSys]_vars

(* no datagram is lost, every goroutine that can run is run, the          *)
(* heartbeat's ticker keeps firing, and the owners of the peers keep       *)
(* calling ReadFrom                                                        *)
SysFair ==
    /\ Init
    /\ [][NextSys]_vars
    /\ WF_vars(SysSpinReadyToMingleTick)
    /\ \A p \in Peers : WF_vars(SysWaitForPeerBy(p))
    /\ \A p \in Peers : WF_vars(SysReadFromBy(p))
    /\ \A p \in Peers : WF_vars(SysReadFromProcessBy(p))
    /\ WF_vars(SysNewPeerReturn)
    /\ WF_vars(SysNewPeerFail)
    /\ WF_vars(SysReadyToMingleLock)
    /\ WF_vars(SysReadyToMingle)
    /\ WF_vars(SysHandlePacket)
    /\ WF_vars(SysHandleHelloServer)

(* what fingerprint() generates when a4's owner calls ResetPeers: 64 fresh *)
(* random bytes                                                            *)
FreshFingerprint == "f3"

(* the owner of a4 calls ResetPeers, once, between two heartbeats, with    *)
(* nothing in flight and before b4 is constructed                          *)
SysResetPeers ==
    /\ peer["a4"].lastFingerprint = SysFingerprint("a4")
    /\ peer["a4"].hb = "select"
    /\ net = {}
    /\ peer["b4"].ctor = "none"
    /\ ResetPeers("a4", FreshFingerprint, "ok")
    /\ net' = net \cup obs'.sent
    /\ SysPeerFrame

(* the heartbeat's ticker does not fire again once a4 was reset: the time  *)
(* looked at is the one between ResetPeers and the next ReadyToMingle      *)
SysTickBeforeReset ==
    /\ peer["a4"].lastFingerprint # FreshFingerprint
    /\ SysSpinReadyToMingleTick

NextSysReset ==
    \/ SysNewPeer
    \/ SysWaitForPeerDone
    \/ SysWaitForPeer
    \/ SysNewPeerReturn
    \/ SysNewPeerFail
    \/ SysTickBeforeReset
    \/ SysReadyToMingleLock
    \/ SysReadyToMingle
    \/ SysReadFrom
    \/ SysReadFromProcess
    \/ SysHandlePacket
    \/ SysHandleHelloServer
    \/ SysResetPeers

(* the server and the peers, a4's owner calling ResetPeers at any moment *)
SysReset == Init /\ [][NextSysReset]_vars

(***************************************************************************)
(* Properties of the server and its MingleSet.                             *)
(***************************************************************************)
AddrsOf(L) == {L[i].addr : i \in 1..Len(L)}

Keys(z) == {a \in Addrs : z.m[a] # NoEls}

(* C1: after any interleaving of add, get and expire the time order, the   *)
(* usage order and the lookup map hold the same addresses, each address    *)
(* once in each order, and the map entry of an address points at that      *)
(* address's element in both orders.                                       *)
C1_ThreeStructuresAgree ==
    LET z == mingleZSet
    IN  /\ AddrsOf(z.timeL) = Keys(z)
        /\ AddrsOf(z.usageL) = Keys(z)
        /\ Len(z.timeL) = Cardinality(Keys(z))
        /\ Len(z.usageL) = Cardinality(Keys(z))
        /\ \A a \in Keys(z) :
              /\ z.m[a][1] \in 1..Len(z.timeL)
              /\ z.timeL[z.m[a][1]].addr = a
              /\ z.m[a][2] \in 1..Len(z.usageL)
              /\ z.usageL[z.m[a][2]].addr = a

(* three entries, re-added and rotated so that the two orders differ,      *)
(* while a HelloServer handler is still in flight                          *)
C1_Witness ==
    /\ Len(mingleZSet.timeL) = 3
    /\ [i \in 1..3 |-> mingleZSet.timeL[i].addr] # [i \in 1..3 |-> mingleZSet.usageL[i].addr]
    /\ handlers # EmptyBag
    /\ now = MaxTime

Meets(sent) == {p \in sent : p.b.typ = Meet}

C3_HelloPeerWhenFewMinglers ==
    (lastHello.valid /\ Len(lastHello.zEls) < PeersToMeet) =>
        \E p \in lastHello.sent :
            /\ p.dst = lastHello.src
            /\ p.src = ServerAddr
            /\ p.b.typ = HelloPeer
            /\ p.b.addr = lastHello.src
            /\ p.b.fp = lastHello.fp
            /\ UnmarshalBinary(p.b) =
                  [err |-> FALSE,
                   msg |-> Message(HelloPeer, lastHello.fp, lastHello.src, Nil)]

(* one mingler, fewer than asked for, and the newcomer still gets a hello  *)
C3_Witness ==
    /\ lastHello.valid
    /\ Len(lastHello.zEls) = 1
    /\ PeersToMeet > 1
    /\ \E p \in lastHello.sent : p.b.typ = HelloPeer /\ p.dst = lastHello.src

(* the addresses whose last ReadyToMingle reached the server               *)
(* ready_to_mingle_timeout or longer before the clock reading tnow         *)
Stale(z, tnow) ==
    {a \in Keys(z) :
        \E i \in 1..Len(z.timeL) :
            /\ z.timeL[i].addr = a
            /\ tnow - z.timeL[i].t >= ReadyToMingleTimeout}

(* C4: a mingler whose last ReadyToMingle is ready_to_mingle_timeout or    *)
(* more old at the handler's clock reading is not returned by get and is   *)
(* sent no Meet, also while expiry has not removed it yet.                 *)
C4_StaleMinglerNeverIntroduced ==
    lastHello.valid =>
        \A a \in Stale(lastHello.zBefore, lastHello.tnow) :
            /\ a \notin AddrsOf(lastHello.zEls)
            /\ \A p \in Meets(lastHello.sent) : p.dst # a

(* a stale entry was still in the set, a fresh one was introduced *)
C4_Witness ==
    /\ lastHello.valid
    /\ Stale(lastHello.zBefore, lastHello.tnow) # {}
    /\ Len(lastHello.zEls) >= 1
    /\ AddrsOf(lastHello.zBefore.usageL) \ Stale(lastHello.zBefore, lastHello.tnow) # {}

(***************************************************************************)
(* Properties of one peer.                                                 *)
(***************************************************************************)

(* C6: NewPeer returns a peer without error only after a valid HelloPeer   *)
(* was processed during construction, so RemoteAddr() is non-nil on every  *)
(* successfully constructed peer, however the hello wait ended.            *)
C6_NewPeerOnlyAfterHelloPeer ==
    \A p \in Peers :
        peer[p].ctor = "ok" => (peer[p].firstHello # Nil /\ peer[p].remoteAddr # Nil)

(* C8: Close called on an open peer eventually returns under every         *)
(* interleaving with the heartbeat and the NAT refresh; when it has        *)
(* returned the socket is closed, the background goroutines have stopped   *)
(* and the peer is marked closed.                                          *)
C8_CloseEventuallyReturns ==
    /\ \A p \in Peers :
          (peer[p].closer = "lock" /\ ~peer[p].closed) ~> peer[p].closed
    /\ [](\A p \in Peers :
            (obs.close.p = p /\ obs.close.err = Nil) =>
                /\ peer[p].closed
                /\ peer[p].conn = "closed"
                /\ peer[p].hb \in {"off", "done"}
                /\ peer[p].nat \in {"off", "done"})

(* C9: a Close call on a peer an earlier Close has closed returns an error *)
(* and changes nothing: the socket is not closed again, the stop channel   *)
(* is not closed again.                                                    *)
C9_SecondCloseFails ==
    [][\A p \in Peers :
          (peer[p].closed /\ peer[p].closer = "lock" /\ peer'[p].closer # "lock") =>
              /\ obs'.close = [p |-> p, err |-> "already closed"]
              /\ obs'.sent = {}
              /\ peer'[p] = [peer[p] EXCEPT !.closer = "idle"]]_vars

C9_Witness ==
    \E p \in Peers :
        /\ obs.close = [p |-> p, err |-> "already closed"]
        /\ peer[p].closed
        /\ peer[p].connCloses = 1
        /\ peer[p].chCloses = 1

(* a datagram some MarshalBinary produced *)
WellFormed(b) ==
    /\ b.typ \in {HelloServer, HelloPeer, Meet, ReadyToMingle}
    /\ b = MarshalBinary(Message(b.typ, b.fp, b.addr, b.mfp))

(* C10: ReadFrom never returns to its caller a well-formed rendezvous      *)
(* datagram whose envelope fingerprint is the peer's current fingerprint.  *)
C10_ReadFromReturnsOnlyApplicationTraffic ==
    (obs.read.p # Nil /\ obs.read.err = Nil) =>
        ~(WellFormed(obs.read.b) /\ obs.read.b.fp = obs.read.fingerprint)

(***************************************************************************)
(* Properties of the server and the peers together.                        *)
(***************************************************************************)

(* A is constructed and in the MingleSet, and a HelloServer of B is on its *)
(* way to the server                                                       *)
Introducing(A, B) ==
    /\ peer[A].ctor = "ok"
    /\ A \in AddrsOf(mingleZSet.timeL)
    /\ \E pkt \in net :
          pkt.src = B /\ pkt.dst = ServerAddr /\ pkt.b.typ = HelloServer

(* C5: if A has sent ReadyToMingle, is in the MingleSet and keeps calling  *)
(* ReadFrom, and B then sends HelloServer, then with fair scheduling and   *)
(* no loss B's known-peer table eventually contains A's address (unless    *)
(* B's own NewPeer gave up at its caller's deadline).                      *)
C5_IntroductionCompletes ==
    Introducing("a4", "b4") ~>
        ("a4" \in peer["b4"].peers \/ peer["b4"].ctor = "failed")

HandedBack(g) ==
    /\ obs'.read.p = g.p
    /\ obs'.read.err = Nil
    /\ obs'.read.b = g.b
    /\ obs'.read.n = Min(g.b.n, g.size)
    /\ obs'.read.src = g.src
    /\ obs'.sent = {}
    /\ peer' = peer

(* C11: a datagram of 66..85 bytes with version byte 0 whose bytes 1..64   *)
(* differ from the peer's current fingerprint is returned by ReadFrom      *)
(* verbatim with its source address; peer table, RemoteAddr and            *)
(* fingerprint are unchanged and nothing is sent.                          *)
C11_ForeignFingerprintPassesThrough ==
    [][\A p \in Peers :
          (/\ obs'.got.p = p
           /\ obs'.got.b.n >= MinMessageSize
           /\ obs'.got.b.n <= MaxMessageSize
           /\ obs'.got.b.ver = 0
           /\ obs'.got.b.fp # peer[p].lastFingerprint)
          => HandedBack(obs'.got)]_vars

C11_Witness ==
    \E p \in Peers :
        /\ obs.got.p = p
        /\ obs.got.b.n \in MinMessageSize..MaxMessageSize
        /\ obs.got.b.ver = 0
        /\ obs.got.b.fp # peer[p].lastFingerprint
        /\ obs.got.b = MarshalBinary(Message(HelloPeer, obs.got.b.fp, p, Nil))
        /\ obs.read.p = p

(* C12: ReadFrom hands back, without touching peer state, every socket     *)
(* read error and every datagram longer than 85 bytes, shorter than 66 or  *)
(* with a nonzero first byte, and also a datagram with the peer's          *)
(* fingerprint that fails to unmarshal.                                    *)
C12_ReadFromHandsBackApplicationTraffic ==
    [][\A p \in Peers :
          /\ (obs'.read.p = p /\ obs'.read.err # Nil) => peer' = peer
          /\ (/\ obs'.got.p = p
              /\ \/ obs'.got.b.n > MaxMessageSize
                 \/ obs'.got.b.n < MinMessageSize
                 \/ obs'.got.b.ver # 0
                 \/ /\ obs'.got.b.fp = peer[p].lastFingerprint
                    /\ UnmarshalBinary(obs'.got.b).err)
             => HandedBack(obs'.got)]_vars

(* C13: processing a Meet with address X and embedded fingerprint G sends  *)
(* PacketBlastCount HelloPeers to X, each with envelope fingerprint G and  *)
(* body X, and leaves the peer's table, RemoteAddr and fingerprint alone.  *)
C13_MeetIsAnsweredWithHelloPeer ==
    [][\A p \in Peers :
          (/\ peer[p].reader = "process"
           /\ peer[p].rmsg.Type = Meet
           /\ peer'[p].reader = "idle")
          => /\ obs'.sent =
                  {Packet(p, peer[p].rmsg.Addr,
                          MarshalBinary(Message(HelloPeer, peer[p].rmsg.MeetFingerprint,
                                                peer[p].rmsg.Addr, Nil)),
                          PacketBlastCount)}
             /\ peer'[p].peers = peer[p].peers
             /\ peer'[p].remoteAddr = peer[p].remoteAddr
             /\ peer'[p].lastFingerprint = peer[p].lastFingerprint]_vars

C13_Witness ==
    \E p \in Peers, pkt \in obs.sent :
        /\ peer[p].reader = "idle"
        /\ pkt.src = p
        /\ pkt.dst = "c6"
        /\ pkt.copies = PacketBlastCount
        /\ pkt.b.typ = HelloPeer
        /\ pkt.b.fp # peer[p].lastFingerprint

(* a round of ReadFrom processes the HelloPeer it decoded *)
ProcessesHelloPeer(p) ==
    /\ peer[p].reader = "process"
    /\ peer[p].rmsg.Type = HelloPeer
    /\ peer'[p].reader = "idle"

(* C14: processing a HelloPeer whose source is the most recently resolved  *)
(* server address never adds an entry to the known-peer table; a peer that *)
(* has heard only from the server has an empty PeerAddrs().                *)
C14_ServerIsNoPeer ==
    /\ [](\A p \in Peers :
            ~peer[p].heardPeer => peer[p].peers = {})
    /\ [][\A p \in Peers :
            (ProcessesHelloPeer(p) /\ peer[p].raddr = peer[p].lastServerAddr)
            => peer'[p].peers = peer[p].peers]_vars

C14_Witness ==
    \E p \in Peers :
        /\ peer[p].ctor = "ok"
        /\ ~peer[p].heardPeer
        /\ peer[p].remoteAddr = p
        /\ peer[p].peers = {}
        /\ obs.got.p = p
        /\ obs.got.src = ServerAddr

(* C15: the known-peer table never holds more than MaxPeers entries, and   *)
(* a HelloPeer from a further non-server source processed on a full table  *)
(* leaves it with exactly MaxPeers entries, the new source among them.     *)
C15_TableBoundedByMaxPeers ==
    /\ [](\A p \in Peers : Cardinality(peer[p].peers) <= MaxPeers)
    /\ [][\A p \in Peers :
            (/\ ProcessesHelloPeer(p)
             /\ peer[p].raddr # peer[p].lastServerAddr
             /\ peer[p].raddr \notin peer[p].peers
             /\ Cardinality(peer[p].peers) = MaxPeers)
            => /\ Cardinality(peer'[p].peers) = MaxPeers
               /\ peer[p].raddr \in peer'[p].peers
               /\ Cardinality(peer[p].peers \ peer'[p].peers) = 1]_vars

C15_Witness ==
    \E p \in Peers :
        /\ peer[p].reader = "process"
        /\ peer[p].rmsg.Type = HelloPeer
        /\ peer[p].raddr # peer[p].lastServerAddr
        /\ peer[p].raddr \notin peer[p].peers
        /\ Cardinality(peer[p].peers) = MaxPeers
        /\ peer[p].heardPeer

(* C16: identical HelloPeers from one source leave at most one entry for   *)
(* that source: processing a HelloPeer from a source already in the table  *)
(* does not grow the table, and it never grows by more than the source.    *)
C16_RepeatedHelloPeerOneEntry ==
    [][\A p \in Peers :
          ProcessesHelloPeer(p)
          => /\ peer'[p].peers \subseteq peer[p].peers \cup {peer[p].raddr}
             /\ peer[p].raddr \in peer[p].peers
                   => Cardinality(peer'[p].peers) <= Cardinality(peer[p].peers)]_vars

C16_Witness ==
    \E p \in Peers :
        /\ peer[p].reader = "process"
        /\ peer[p].rmsg.Type = HelloPeer
        /\ peer[p].raddr \in peer[p].peers

(* C17: after a successful ResetPeers the known-peer table is empty, the   *)
(* fingerprint is the newly generated one, the server address is resolved  *)
(* again and a HelloServer with the new fingerprint was blasted to the     *)
(* server; the table of a constructed peer stays empty until ReadFrom      *)
(* processes a HelloPeer.                                                  *)
C17_ResetPeersStartsOver ==
    [][\A p \in Peers :
          /\ (obs'.reset.p = p /\ obs'.reset.err = Nil)
             => /\ peer'[p].peers = {}
                /\ peer'[p].lastFingerprint = obs'.reset.fingerprint
                /\ peer'[p].lastServerAddr = ServerAddr
                /\ obs'.sent =
                     {Packet(p, ServerAddr,
                             MarshalBinary(Message(HelloServer, obs'.reset.fingerprint,
                                                   Nil, Nil)),
                             PacketBlastCount)}
          /\ (peer[p].ctor = "ok" /\ peer[p].peers = {} /\ peer'[p].peers # {})
             => ProcessesHelloPeer(p)]_vars

C17_Witness ==
    \E p \in Peers :
        /\ obs.reset.p = p
        /\ obs.reset.err = Nil
        /\ obs.reset.fingerprint # "f1"
        /\ peer[p].heardPeer
        /\ peer[p].peers = {}

(***************************************************************************)
(* Properties of add, get and expire.                                      *)
(***************************************************************************)
AddrSeq(L) == [i \in 1..Len(L) |-> L[i].addr]

Values(L) == [i \in 1..Len(L) |-> zsetEl(L[i].t, L[i].addr, L[i].fingerprint)]

Without(L, addrs) == SelectSeq(L, LAMBDA a : a \notin addrs)

Reverse(L) == [i \in 1..Len(L) |-> L[Len(L) + 1 - i]]

Range(L) == {L[i] : i \in 1..Len(L)}

(* C18: add(addr, fp) leaves addr as the newest entry of the time order,   *)
(* with a fresh timestamp and fp; an absent addr is appended to the tail   *)
(* of the usage order, a present addr keeps its place there and the size   *)
(* of the set stays.                                                       *)
C18_AddRefreshesInPlace ==
    obs.zset.op = "add" =>
        LET c == obs.zset
            z == mingleZSet
            el == zsetEl(c.t, c.addr, c.fingerprint)
            present == c.addr \in Range(AddrSeq(c.zBefore.usageL))
        IN  /\ Values(z.timeL) =
                  Append(SelectSeq(Values(c.zBefore.timeL),
                                   LAMBDA e : e.addr # c.addr), el)
            /\ IF present
               THEN /\ AddrSeq(z.usageL) = AddrSeq(c.zBefore.usageL)
                    /\ Len(z.timeL) = Len(c.zBefore.timeL)
               ELSE AddrSeq(z.usageL) = Append(AddrSeq(c.zBefore.usageL), c.addr)
            /\ \A i \in 1..Len(z.usageL) :
                  Values(z.usageL)[i] =
                     IF z.usageL[i].addr = c.addr THEN el
                     ELSE Values(c.zBefore.usageL)[i]

C18_Witness ==
    /\ obs.zset.op = "add"
    /\ obs.zset.addr = "a4"
    /\ AddrSeq(obs.zset.zBefore.timeL) = <<"a4", "b4">>
    /\ AddrSeq(mingleZSet.timeL) = <<"b4", "a4">>
    /\ AddrSeq(mingleZSet.usageL) = <<"a4", "b4">>

(* the entries get may return: those with a timestamp strictly after min,  *)
(* in the order the walk from the back of the usage order meets them       *)
Eligible(z, min) == SelectSeq(Reverse(Values(z.usageL)), LAMBDA e : e.t > min)

(* C19: get(n, min) returns exactly the first min(n, number of eligible)   *)
(* eligible entries met from the least recently used end of the usage      *)
(* order, in that order: never more than n, never one with a timestamp     *)
(* <= min, never one twice.                                                *)
C19_GetReturnsFirstEligible ==
    obs.zset.op = "get" =>
        LET c == obs.zset
            e == Eligible(c.zBefore, c.t)
        IN  /\ c.zEls = SubSeq(e, 1, Min(c.n, Len(e)))
            /\ Len(c.zEls) <= c.n
            /\ \A i \in 1..Len(c.zEls) : c.zEls[i].t > c.t
            /\ \A i, j \in 1..Len(c.zEls) :
                  c.zEls[i].addr = c.zEls[j].addr => i = j

C19_Witness ==
    /\ obs.zset.op = "get"
    /\ obs.zset.n = 2
    /\ Len(obs.zset.zBefore.usageL) = 3
    /\ Len(Eligible(obs.zset.zBefore, obs.zset.t)) = 2
    /\ obs.zset.zBefore.usageL[3].t <= obs.zset.t
    /\ Len(obs.zset.zEls) = 2

(* C20: after get collected x1..xk the usage order is xk, ..., x1 followed *)
(* by the entries not collected, in their previous order; nothing else of  *)
(* the set changes.                                                        *)
C20_GetRotatesUsageOrder ==
    obs.zset.op = "get" =>
        LET c == obs.zset
            taken == Range(AddrSeq(c.zEls))
        IN  /\ AddrSeq(mingleZSet.usageL) =
                  Reverse(AddrSeq(c.zEls)) \o Without(AddrSeq(c.zBefore.usageL), taken)
            /\ Range(Values(mingleZSet.usageL)) = Range(Values(c.zBefore.usageL))
            /\ Values(mingleZSet.timeL) = Values(c.zBefore.timeL)

C20_Witness ==
    /\ obs.zset.op = "get"
    /\ AddrSeq(obs.zset.zBefore.usageL) = <<"a4", "b4", "c6">>
    /\ AddrSeq(obs.zset.zEls) = <<"c6", "b4">>
    /\ AddrSeq(mingleZSet.usageL) = <<"b4", "c6", "a4">>

(* C21: get changes nothing but the usage-order places of the entries it   *)
(* returns: the time order, the key set and every entry's timestamp and    *)
(* fingerprint stay, and a get that returns nothing leaves the usage order *)
(* as it was.                                                              *)
C21_GetOnlyMovesWhatItReturns ==
    obs.zset.op = "get" =>
        LET c == obs.zset
        IN  /\ mingleZSet.timeL = c.zBefore.timeL
            /\ Keys(mingleZSet) = Keys(c.zBefore)
            /\ \A a \in Keys(c.zBefore) :
                  /\ mingleZSet.m[a][1] = c.zBefore.m[a][1]
                  /\ Values(mingleZSet.usageL)[mingleZSet.m[a][2]] =
                        Values(c.zBefore.usageL)[c.zBefore.m[a][2]]
                  /\ a \notin Range(AddrSeq(c.zEls)) =>
                        \A b \in Keys(c.zBefore) \ Range(AddrSeq(c.zEls)) :
                            (mingleZSet.m[a][2] < mingleZSet.m[b][2]) <=>
                                (c.zBefore.m[a][2] < c.zBefore.m[b][2])
            /\ c.zEls = <<>> => mingleZSet.usageL = c.zBefore.usageL

(* a get that walks over entries and returns none of them: n = 0, or every *)
(* timestamp at or before the minimum                                      *)
C21_Witness ==
    /\ obs.zset.op = "get"
    /\ obs.zset.n > 0
    /\ Len(obs.zset.zBefore.usageL) = 2
    /\ \A i \in 1..2 : obs.zset.zBefore.usageL[i].t <= obs.zset.t
    /\ AddrSeq(obs.zset.zBefore.usageL) # AddrSeq(obs.zset.zBefore.timeL)
    /\ obs.zset.zEls = <<>>
    /\ mingleZSet = obs.zset.zBefore

(* C22: expire(cutoff) removes from the time order, the usage order and    *)
(* the lookup map exactly the entries with a timestamp <= cutoff, whatever *)
(* the usage order, and the survivors keep their order in both.            *)
C22_ExpireRemovesExactlyTheOld ==
    obs.zset.op = "expire" =>
        LET c == obs.zset
        IN  /\ Values(mingleZSet.timeL) =
                  SelectSeq(Values(c.zBefore.timeL), LAMBDA e : e.t > c.t)
            /\ Values(mingleZSet.usageL) =
                  SelectSeq(Values(c.zBefore.usageL), LAMBDA e : e.t > c.t)
            /\ Keys(mingleZSet) =
                  {a \in Keys(c.zBefore) :
                      \E i \in 1..Len(c.zBefore.timeL) :
                          /\ c.zBefore.timeL[i].addr = a
                          /\ c.zBefore.timeL[i].t > c.t}
            /\ \A a \in Keys(mingleZSet) :
                  /\ mingleZSet.timeL[mingleZSet.m[a][1]].addr = a
                  /\ mingleZSet.usageL[mingleZSet.m[a][2]].addr = a

(* the expired entry sits between two survivors of the usage order *)
C22_Witness ==
    /\ obs.zset.op = "expire"
    /\ Len(obs.zset.zBefore.usageL) = 3
    /\ obs.zset.zBefore.usageL[1].t > obs.zset.t
    /\ obs.zset.zBefore.usageL[2].t <= obs.zset.t
    /\ obs.zset.zBefore.usageL[3].t > obs.zset.t
    /\ Len(mingleZSet.usageL) = 2
    /\ Len(mingleZSet.timeL) = 2

(***************************************************************************)
(* Properties of the server's handlers.                                    *)
(***************************************************************************)
(* the MingleSet's entry of a key *)
EntryOf(z, a) ==
    zsetEl(z.timeL[z.m[a][1]].t, z.timeL[z.m[a][1]].addr,
           z.timeL[z.m[a][1]].fingerprint)

Count(L, a) == Cardinality({i \in 1..Len(L) : L[i].addr = a})

HandlesReadyToMingle(pkt) ==
    /\ UnmarshalBinary(Truncate(pkt.b, MaxMessageSize)).msg.Type = ReadyToMingle
    /\ handlePacket(pkt)

TurnedDown(s, k) ==
    /\ s.tasks[k].pc # "idle"
    /\ ~UnmarshalBinary(s.tasks[k].b).err
    /\ s.FingerprintCheck.set
    /\ s.tasks[k].b.fp \notin s.FingerprintCheck.accepts

(* C24: when FingerprintCheck is set and returns false for a datagram's    *)
(* fingerprint the handler drops the datagram whatever its type: no step   *)
(* of that handler changes the MingleSet, sends a datagram or writes to    *)
(* the error sink.                                                         *)
C24_RejectedFingerprintDroppedSilently ==
    [][\A k \in Slots :
          (TurnedDown(srv, k) /\ srv'.tasks[k] # srv.tasks[k]) =>
              /\ mingleZSet' = mingleZSet
              /\ obs'.sent = {}
              /\ net' = net
              /\ srv'.ErrCh = srv.ErrCh
              /\ srv'.tasks[k].pc \in {"done", "idle"}
              /\ srv'.tasks[k].errs = 0
      ]_vars

(* a ReadyToMingle of a4 under f2 was turned down while a4 stays in the    *)
(* MingleSet under f1                                                      *)
C24_Witness ==
    /\ \E k \in Slots :
          /\ TurnedDown(srv, k)
          /\ srv.tasks[k].pc = "done"
          /\ srv.tasks[k].b.typ = ReadyToMingle
          /\ srv.tasks[k].src = "a4"
    /\ "a4" \in Keys(mingleZSet)
    /\ EntryOf(mingleZSet, "a4").fingerprint = "f1"
    /\ srv.ErrCh.attached
    /\ srv.ErrCh.room = srv.ErrCh.cap

(* the handler in slot k has an error to report and the sink is not        *)
(* attached or cannot take it at once                                      *)
SinkRefuses(s, k) ==
    /\ s.tasks[k].pc = "err"
    /\ ~s.ErrCh.attached \/ s.ErrCh.room = 0

(* C25: reporting an error never blocks a handler: with no sink attached,  *)
(* or a sink that cannot take the error at once, the error is discarded,   *)
(* and the handler runs to completion and gives its throttle slot back.    *)
C25_ErrorReportNeverBlocks ==
    /\ [][\A k \in Slots :
             (SinkRefuses(srv, k) /\ srv'.tasks[k] # srv.tasks[k]) =>
                 /\ srv'.ErrCh = srv.ErrCh
                 /\ srv'.tasks[k].errs = srv.tasks[k].errs - 1
         ]_vars
    /\ \A k \in Slots :
          SinkRefuses(srv, k) ~>
              (srv.tasks[k].pc = "idle" /\ srv.throttle > 0)

(* a handler is past reporting the error of an undecodable datagram to a   *)
(* server without a sink, another past reporting one to a full sink        *)
C25_Witness ==
    \E k \in Slots :
        /\ srv.tasks[k].pc = "done"
        /\ UnmarshalBinary(srv.tasks[k].b).err
        /\ ~srv.ErrCh.attached \/ srv.ErrCh.room = 0
        /\ srv.throttle < MaxConcurrent

(* C26: while Listen runs, at most max_concurrent handlers are in flight   *)
(* and free throttle tokens plus handlers in flight make max_concurrent;   *)
(* with every slot taken the reader stays blocked and spawns no handler.   *)
C26_ThrottleBoundsHandlers ==
    /\ [](srv.expiry # "none" =>
             /\ inFlight(srv) <= MaxConcurrent
             /\ srv.throttle >= 0
             /\ srv.throttle + inFlight(srv) = MaxConcurrent
             /\ srv.wg = inFlight(srv) + (IF srv.expiry = "running" THEN 1 ELSE 0))
    /\ [][(srv.pc = "throttle" /\ inFlight(srv) = MaxConcurrent) =>
             /\ srv'.pc = "throttle"
             /\ srv'.pending = srv.pending
             /\ inFlight(srv') <= inFlight(srv)
         ]_vars

C26_Witness ==
    /\ srv.pc = "throttle"
    /\ srv.throttle = 0
    /\ inFlight(srv) = MaxConcurrent
    /\ \A k \in Slots : srv.tasks[k].pc \in {"idle", "get", "err"}

(* C27: Listen returns only after every handler it admitted and the expiry *)
(* goroutine have finished, and once the context is cancelled Listen       *)
(* eventually returns.                                                     *)
C27_ListenWaitsAndReturns ==
    /\ [](srv.pc = "returned" =>
             /\ \A k \in Slots : srv.tasks[k].pc = "idle"
             /\ srv.expiry # "running")
    /\ (srv.ctxDone /\ srv.pc # "new") ~> (srv.pc = "returned")

(* Listen has returned the context's error after handlers had run *)
C27_Witness ==
    /\ srv.pc = "returned"
    /\ srv.ret = "canceled"
    /\ srv.expiry = "done"
    /\ srv.throttle = MaxConcurrent
    /\ "a4" \in Keys(mingleZSet)

(* C28: a socket read that fails with an error other than a timeout ends   *)
(* the loop and Listen eventually returns that error, cancelled context or *)
(* not; a read that times out leads to another read.                       *)
C28_ReadErrorEndsListen ==
    /\ [][(srv.pc = "read" /\ srv'.pc = "loop") => srv'.ret = Nil]_vars
    /\ [][(srv.pc = "read" /\ srv'.ret = "read") => srv'.pc = "wait"]_vars
    /\ (srv.ret = "read") ~> (srv.pc = "returned" /\ srv.ret = "read")

(***************************************************************************)
(* Properties of the peer's construction and of its port mapping.          *)
(***************************************************************************)
(* C29: when the socket read of the hello wait fails with an error that is *)
(* no timeout, construction is aborted: NewPeer closes the peer and        *)
(* returns the error, not a peer.                                          *)
C29_ReadErrorAbortsConstruction ==
    /\ [][\A p \in Peers :
             waitForPeerError(p) => peer'[p].ctor = "closing"]_vars
    /\ [][\A p \in Peers :
             (peer[p].ctor = "closing" /\ peer'[p].ctor # "closing") =>
                 peer'[p].ctor = "failed"]_vars

(* C30: once Close has returned, the port mapping added for the peer on    *)
(* the gateway is deleted, whether the owner closed a constructed peer or  *)
(* a failing NewPeer closed it.                                            *)
C30_CloseDeletesPortMapping ==
    \A p \in Peers :
        (peer[p].closed /\ peer[p].closer = "idle") => ~peer[p].mapped

(***************************************************************************)
(* C31: every message of the four types survives a round trip:             *)
(* UnmarshalBinary of what MarshalBinary produced succeeds and yields the  *)
(* message that was marshalled.                                            *)
(***************************************************************************)
C31_RoundTrip ==
    obs.codec.op = "roundtrip" =>
        /\ ~obs.codec.u.err
        /\ obs.codec.u.msg = obs.codec.m

(* the types whose frame ends with an address body *)
HasAddrBody(b) == b.typ \in {HelloPeer, Meet}

(* the frames UnmarshalBinary has to refuse *)
Malformed(b) ==
    \/ b.ver # 0
    \/ b.typ >= invalid
    \/ b.n < MinMessageSize
    \/ b.n > MaxMessageSize
    \/ HasAddrBody(b) /\ b.proto # 0
    \/ HasAddrBody(b) /\ IPBytes(b) \notin {4, 16}

(***************************************************************************)
(* C32: UnmarshalBinary returns an error and no message for a frame with a *)
(* nonzero version byte, a type byte of 4 or more, fewer than 66 or more   *)
(* than 85 bytes, and for a HelloPeer or Meet whose address body has a     *)
(* nonzero proto tag or whose ip part is neither 4 nor 16 bytes long.      *)
(***************************************************************************)
C32_MalformedFramesRejected ==
    (obs.codec.op = "decode" /\ Malformed(obs.codec.b)) =>
        /\ obs.codec.u.err
        /\ obs.codec.u.msg = NoMessage

C32_Witness ==
    /\ obs.codec.op = "decode"
    /\ obs.codec.b.n = (1 + FingerprintSize + 1) + AddrBodyLen("b4")
    /\ obs.codec.b.ver = 0
    /\ obs.codec.b.typ = HelloPeer
    /\ obs.codec.b.proto # 0
    /\ obs.codec.u.err

(***************************************************************************)
(* C33: NewPeer turns to the gateway only from its first hello wait, with  *)
(* no HelloPeer processed and InitTimeoutUntilGateway positive; gateway    *)
(* and mapping are set by that step alone; the second wait begins only     *)
(* with the mapping added, never leads to a further wait or gateway        *)
(* attempt, and fails only when the caller's context has met its deadline. *)
(***************************************************************************)
C33_GatewayOnlyAfterSilentFirstWait ==
    [][\A p \in DOMAIN peer :
          /\ (peer[p].ctor # "gateway" /\ peer'[p].ctor = "gateway") =>
                 /\ peer[p].ctor = "wait1"
                 /\ peer[p].firstHello = Nil
                 /\ peer'[p].firstHello = Nil
                 /\ peer[p].InitTimeoutUntilGateway > 0
          /\ (peer'[p].gw # peer[p].gw \/ peer'[p].mapped # peer[p].mapped) =>
                 \/ peer[p].ctor = "gateway"
                 \/ peer[p].ctor = "ok"
          /\ (peer[p].ctor # "wait2" /\ peer'[p].ctor = "wait2") =>
                 /\ peer[p].ctor = "gateway"
                 /\ peer'[p].mapped
          /\ peer[p].ctor = "wait2" =>
                 /\ peer'[p].ctor \in {"wait2", "ready", "closing"}
                 /\ peer'[p].ctor = "closing" => peer'[p].ctx = "deadline"
          /\ peer[p].ctor \notin {"none", "wait1", "gateway"} =>
                 peer'[p].ctor \notin {"wait1", "gateway"}
          /\ peer[p].InitTimeoutUntilGateway < 0 =>
                 (peer'[p].ctor # "gateway" /\ ~peer'[p].gw)]_vars

(* the retry after the mapping met a peer *)
C33_Witness ==
    /\ peer[Self].ctor = "ready"
    /\ peer[Self].mapped
    /\ peer[Self].InitTimeoutUntilGateway > 0
    /\ peer[Self].firstHello # Nil

(***************************************************************************)
(* C34: the peer never writes to its socket while it holds its lock: every *)
(* step of ResetPeers, of the heartbeat and of ReadFrom that sends         *)
(* datagrams sends them with Peer.l not held.                              *)
(***************************************************************************)
C34_NoSendUnderLock ==
    obs.sent # {} => obs.held = Nil

(***************************************************************************)
(* C35: after construction every read or write of the peer's shared state  *)
(* (known-peer table, fingerprint, RemoteAddr, cached server address) is   *)
(* made with Peer.l held.                                                  *)
(***************************************************************************)
C35_SharedStateUnderLock ==
    obs.touch # {} => obs.held # Nil

(* the last step was a round of p's ReadFrom that read a Meet the server  *)
(* marshalled                                                              *)
ReadsMeetFromServer(p) ==
    /\ obs.got.p = p
    /\ obs.got.src = ServerAddr
    /\ obs.got.b.typ = Meet
    /\ WellFormed(obs.got.b)

(***************************************************************************)
(* C36: a Meet the server sent to a mingler carries, when the mingler's    *)
(* ReadFrom reads it, the mingler's current fingerprint as its envelope    *)
(* fingerprint, and that round of ReadFrom does not hand it to the caller. *)
(***************************************************************************)
C36_MeetIsRecognised ==
    \A p \in Peers :
        ReadsMeetFromServer(p) =>
            /\ obs.got.b.fp = peer[p].lastFingerprint
            /\ obs.read.p = Nil

(* pkt is a HelloPeer for p whose envelope fingerprint is not p's own *)
ForeignHelloPeer(p, pkt) ==
    /\ pkt.dst = p
    /\ pkt.b.typ = HelloPeer
    /\ WellFormed(pkt.b)
    /\ pkt.b.fp # peer[p].lastFingerprint

(***************************************************************************)
(* C37: a HelloPeer whose envelope fingerprint is not the peer's current   *)
(* fingerprint changes neither RemoteAddr nor the known-peer table, when   *)
(* it is read by the hello wait of NewPeer and when it is read by          *)
(* ReadFrom.                                                               *)
(***************************************************************************)
C37_OnlyOwnFingerprintChangesState ==
    [][\A pkt \in PeerDatagrams :
          (/\ ForeignHelloPeer(Self, pkt)
           /\ \/ waitForPeer(Self, pkt)
              \/ \E size \in {MaxMessageSize, BigBuf} : ReadFrom(Self, pkt, size))
          => /\ peer'[Self].remoteAddr = peer[Self].remoteAddr
             /\ peer'[Self].peers = peer[Self].peers]_vars

(***************************************************************************)
(* C38: processing a HelloPeer whose source is already in the known-peer   *)
(* table leaves the table's set of addresses as it was, also when the      *)
(* table is full.                                                          *)
(***************************************************************************)
C38_RepeatedHelloPeerKeepsTable ==
    [][\A p \in Peers :
          (ProcessesHelloPeer(p) /\ peer[p].raddr \in peer[p].peers)
          => peer'[p].peers = peer[p].peers]_vars

(* the addresses successive gets with the counts ns return, in order *)
RECURSIVE Handout(_, _, _)
Handout(z, ns, min) ==
    IF ns = <<>>
    THEN <<>>
    ELSE LET r == get(z, Head(ns), min)
         IN  AddrSeq(r.zEls) \o Handout(r.z, Tail(ns), min)

(***************************************************************************)
(* C39: with every entry eligible and no add or expire in between,         *)
(* successive gets hand out the entries in one cyclic order: the sequence  *)
(* of all returned addresses repeats with the size of the set as its       *)
(* period, so that between two returns of an entry every other entry is    *)
(* returned exactly once, and every get hands out min(n, size) entries.    *)
(* An address added for the first time is the first entry the next get     *)
(* with n >= 1 returns.                                                    *)
(***************************************************************************)
C39_GetRotatesFairly ==
    LET z == mingleZSet
        size == Len(z.usageL)
    IN  /\ \A n1, n2, n3 \in 1..MaxGet :
              LET S == Handout(z, <<n1, n2, n3>>, -1)
              IN  /\ Len(S) = Min(n1, size) + Min(n2, size) + Min(n3, size)
                  /\ \A i \in 1..Len(S) : i + size <= Len(S) => S[i + size] = S[i]
                  /\ \A i, j \in 1..Len(S) :
                        (i < j /\ S[i] = S[j]) => (j - i) % size = 0
        /\ (obs.zset.op = "add" /\ obs.zset.addr \notin Keys(obs.zset.zBefore)) =>
              \A n \in 1..MaxGet, min \in -1..(obs.zset.t - 1) :
                  LET r == get(z, n, min)
                  IN  /\ r.zEls # <<>>
                      /\ r.zEls[1].addr = obs.zset.addr

(* a get that returned two of three entries; the next gets go on with the  *)
(* third and start over                                                    *)
C39_Witness ==
    /\ obs.zset.op = "get"
    /\ AddrSeq(obs.zset.zBefore.usageL) = <<"a4", "b4", "c6">>
    /\ AddrSeq(obs.zset.zEls) = <<"c6", "b4">>
    /\ Handout(mingleZSet, <<2, 2>>, -1) = <<"a4", "c6", "b4", "a4">>

(***************************************************************************)
(* C40: the time order is sorted by non-decreasing timestamp from its      *)
(* oldest to its newest end, and an address has the same timestamp in the  *)
(* usage order as in the time order; so an expire leaves no entry with a   *)
(* timestamp at or before its cutoff in either order, and the timestamp    *)
(* get tests and returns for an address is that of its most recent add.    *)
(***************************************************************************)
C40_TimeOrderSortedAndStampsAgree ==
    LET z == mingleZSet
        c == obs.zset
    IN  /\ \A i, j \in 1..Len(z.timeL) : i < j => z.timeL[i].t <= z.timeL[j].t
        /\ \A i \in 1..Len(z.usageL), j \in 1..Len(z.timeL) :
              z.usageL[i].addr = z.timeL[j].addr => z.usageL[i].t = z.timeL[j].t
        /\ c.op = "expire" =>
              /\ \A i \in 1..Len(z.timeL) : z.timeL[i].t > c.t
              /\ \A i \in 1..Len(z.usageL) : z.usageL[i].t > c.t
        /\ c.op = "add" =>
              /\ z.timeL[Len(z.timeL)] = [z.timeL[Len(z.timeL)] EXCEPT !.addr = c.addr, !.t = c.t]
              /\ \A i \in 1..Len(z.usageL) :
                    z.usageL[i].addr = c.addr => z.usageL[i].t = c.t
        /\ c.op = "get" =>
              \A i \in 1..Len(c.zEls) :
                  c.zEls[i].t = EntryOf(c.zBefore, c.zEls[i].addr).t

(* an expire that stopped at the first entry after its cutoff, in a set    *)
(* whose usage order differs from its time order                           *)
C40_Witness ==
    /\ obs.zset.op = "expire"
    /\ obs.zset.t = 1
    /\ Len(obs.zset.zBefore.timeL) = 3
    /\ [i \in 1..3 |-> obs.zset.zBefore.timeL[i].t] = <<0, 1, 2>>
    /\ AddrSeq(obs.zset.zBefore.usageL) # AddrSeq(obs.zset.zBefore.timeL)
    /\ Len(mingleZSet.timeL) = 1

====
